---- MODULE Spec2Model ----
(***************************************************************************)
(* Model of the chat command router of local-qdrant-rag (src/src/cli.py)   *)
(* and of the filesystem operations its executor drives.                   *)
(*                                                                         *)
(* A text is a sequence of atoms.  The atoms " ", "/", "~", ".", "!", "?"  *)
(* are the single characters the regular expressions of cli.py look at;    *)
(* every other atom is a maximal run of other characters (a word, a path   *)
(* segment, a file name).  The regular expressions are translated element  *)
(* by element into patterns that an ordered backtracking matcher runs.     *)
(***************************************************************************)
EXTENDS Integers, Sequences, FiniteSets, TLC

SP == " "

MinOf(S) == CHOOSE x \in S : \A y \in S : x <= y
MaxOf(S) == CHOOSE x \in S : \A y \in S : x >= y

\* an assignment: the value is computed once and named in what follows
Bind(value, Rest(_)) == Rest(value)

\* the elements of t at the positions K, in order
AtIdx(t, K) ==
  [j \in 1..Cardinality(K) |-> t[CHOOSE i \in K : Cardinality({k \in K : k < i}) = j - 1]]

\* str.lower() on the capitalised atoms of the vocabulary
Lower(a) ==
  CASE a = "Desktop" -> "desktop"
    [] a = "Destop" -> "destop"
    [] a = "Dokumente" -> "dokumente"
    [] a = "Documents" -> "documents"
    [] a = "Users" -> "users"
    [] OTHER -> a

LowerText(t) == [i \in DOMAIN t |-> Lower(t[i])]

\* str.strip()
Strip(t) ==
  LET ns == {i \in DOMAIN t : t[i] # SP}
  IN IF ns = {} THEN <<>> ELSE SubSeq(t, MinOf(ns), MaxOf(ns))

\* re.sub(r'\s+', ' ', query.strip())
CollapseWs(t) ==
  LET s == Strip(t)
  IN AtIdx(s, {i \in DOMAIN s : s[i] # SP \/ s[i - 1] # SP})

Punct == {"!", "?", "."}

\* re.sub(r'[!?.]+$', '', s).strip()
StripTrailingPunct(t) ==
  LET keep == {i \in DOMAIN t : t[i] \notin Punct}
  IN IF keep = {} THEN <<>> ELSE Strip(SubSeq(t, 1, MaxOf(keep)))

\* query_stripped of the three parsers
Normalize(t) == StripTrailingPunct(CollapseWs(t))

(***************************************************************************)
(* Substring tests.  Inside one atom a needle occurs where the tables say  *)
(* so; across atoms it occurs atom by atom.                                *)
(***************************************************************************)
\* <<a, n>>: the lower-cased atom a properly contains n
InfixPairs ==
  { <<"wissensdatenbank", "wissen">>, <<"wissensdatenbanken", "wissen">>,
    <<"dateien", "datei">>, <<"räume", "räum">>, <<"datei.txt", "datei">>,
    <<"jetzt.txt", "jetzt">>, <<"undatiert", "und">> }
\* <<a, n>>: a properly starts with n
PrefixPairs ==
  { <<"wissensdatenbank", "wissen">>, <<"wissensdatenbanken", "wissen">>,
    <<"dateien", "datei">>, <<"räume", "räum">>, <<"datei.txt", "datei">>,
    <<"jetzt.txt", "jetzt">>, <<"undatiert", "und">> }
\* <<a, n>>: a properly ends with n
SuffixPairs == { <<"einfach", "fach">> }

HasInfix(a, n) == Lower(a) = n \/ <<Lower(a), n>> \in InfixPairs
HasPrefix(a, n) == Lower(a) = n \/ <<Lower(a), n>> \in PrefixPairs
HasSuffix(a, n) == Lower(a) = n \/ <<Lower(a), n>> \in SuffixPairs

\* needle (a sequence of lower-case atoms) in text.lower()
Contains(t, n) ==
  IF Len(n) = 1
  THEN \E i \in DOMAIN t : HasInfix(t[i], n[1])
  ELSE \E i \in 1..(Len(t) - Len(n) + 1) :
         /\ HasSuffix(t[i], n[1])
         /\ HasPrefix(t[i + Len(n) - 1], n[Len(n)])
         /\ \A k \in 2..(Len(n) - 1) : Lower(t[i + k - 1]) = n[k]

(***************************************************************************)
(* Optional values (None of Python).                                       *)
(***************************************************************************)
None == [some |-> FALSE, v |-> <<>>]
Some(x) == [some |-> TRUE, v |-> x]
\* Python truthiness of an optional string
Truthy(o) == o.some /\ o.v # <<>>

(***************************************************************************)
(* Patterns: the elements of a regular expression, matched in order with   *)
(* backtracking (alternatives left to right, greedy repetition longest     *)
(* first, lazy repetition shortest first).                                 *)
(***************************************************************************)
El(t, a, p, min) == [t |-> t, a |-> a, p |-> p, min |-> min]
Lit(alts)  == El("lit", alts, <<>>, 0)          \* (?:a|b|c), each a phrase
W          == El("ws", <<>>, <<>>, 1)           \* \s+
W0         == El("ws", <<>>, <<>>, 0)           \* \s*
Any1       == El("any", <<>>, <<>>, 1)          \* .+
Any0       == El("any", <<>>, <<>>, 0)          \* .*
LazyWords  == El("words", <<>>, <<>>, 1)        \* [^\s]+(?:\s+[^\s]+)*?
GreedyWords == El("gwords", <<>>, <<>>, 1)      \* [^\s"]+(?:\s+[^\s"]+)*
Nsp        == El("nsp", <<>>, <<>>, 1)          \* [^\s"]+
Open       == El("open", <<>>, <<>>, 0)         \* (
Close      == El("close", <<>>, <<>>, 0)        \* )
OptG(p)    == El("opt", <<>>, p, 0)             \* (?:p)?
OptCap(p)  == El("optcap", <<>>, p, 0)          \* (p)?
End        == El("end", <<>>, <<>>, 0)          \* $
NoLater(n) == El("nla", n, <<>>, 0)             \* (?!.*n)
Cls0(as)   == El("cls", as, <<>>, 0)            \* [as]*

Cap(p) == <<Open>> \o p \o <<Close>>             \* (p)
\* single-word alternatives
A(ws) == Lit([i \in DOMAIN ws |-> <<ws[i]>>])

AltP(ps)   == El("altp", <<>>, ps, 0)           \* (?:p1|p2|...), each a pattern
\* a phrase: the words joined by single spaces
Ph(ws) == [i \in 1..(2 * Len(ws) - 1) |-> IF i % 2 = 1 THEN ws[(i + 1) \div 2] ELSE SP]
L1(w) == Lit(<<(<<w>>)>>)

NoMatch == [ok |-> FALSE, caps |-> <<>>, end |-> 0]

StartsAt(text, pos, lit) ==
  /\ pos + Len(lit) - 1 <= Len(text)
  /\ \A k \in 1..Len(lit) : Lower(text[pos + k - 1]) = lit[k]

\* <<a, n, r>>: the atom a is n followed by r; a literal that ends inside an
\* atom leaves the rest of the atom to the next element of the pattern
SplitPairs ==
  { <<"information", "in", "formation">>, <<"hierarchie", "hier", "archie">>,
    <<"undatiert", "und", "atiert">>, <<"hallo,", "hallo", ",">>,
    <<"hi,", "hi", ",">> }

SplitRest(text, pos, lit) ==
  LET q == pos + Len(lit) - 1
  IN IF /\ q <= Len(text)
        /\ \A k \in 1..(Len(lit) - 1) : Lower(text[pos + k - 1]) = lit[k]
     THEN {sp \in SplitPairs : sp[1] = Lower(text[q]) /\ sp[2] = lit[Len(lit)]}
     ELSE {}

\* length of the run of atoms from pos that satisfy being in / not in S
RECURSIVE RunIn(_, _, _)
RunIn(text, pos, S) ==
  IF pos <= Len(text) /\ text[pos] \in S THEN 1 + RunIn(text, pos + 1, S) ELSE 0

RECURSIVE RunOut(_, _, _)
RunOut(text, pos, S) ==
  IF pos <= Len(text) /\ text[pos] \notin S THEN 1 + RunOut(text, pos + 1, S) ELSE 0

RECURSIVE M(_, _, _, _, _)
RECURSIVE MAlts(_, _, _, _, _, _, _)
RECURSIVE MLen(_, _, _, _, _, _, _, _, _)
RECURSIVE MAltP(_, _, _, _, _, _, _)

\* pat from position pos of text; caps are the groups closed so far, st the
\* start of the open group
M(pat, text, pos, caps, st) ==
  IF Len(pat) = 0 THEN [ok |-> TRUE, caps |-> caps, end |-> pos]
  ELSE
    LET e == Head(pat)
        rest == Tail(pat)
        left == Len(text) - pos + 1
    IN CASE e.t = "lit" -> MAlts(e.a, 1, rest, text, pos, caps, st)
         [] e.t = "ws" -> MLen(rest, text, pos, caps, st, RunIn(text, pos, {SP}), e.min, -1, FALSE)
         [] e.t = "cls" -> MLen(rest, text, pos, caps, st,
                                RunIn(text, pos, {e.a[i] : i \in DOMAIN e.a}), 0, -1, FALSE)
         [] e.t = "any" -> MLen(rest, text, pos, caps, st, left, e.min, -1, FALSE)
         [] e.t = "words" -> MLen(rest, text, pos, caps, st, 1, left, 1, TRUE)
         [] e.t = "gwords" -> MLen(rest, text, pos, caps, st, left, 1, -1, TRUE)
         [] e.t = "nsp" -> MLen(rest, text, pos, caps, st, RunOut(text, pos, {SP}), 1, -1, FALSE)
         [] e.t = "open" -> M(rest, text, pos, caps, pos)
         [] e.t = "close" -> M(rest, text, pos, Append(caps, Some(SubSeq(text, st, pos - 1))), st)
         [] e.t = "opt" ->
              LET r == M(e.p \o rest, text, pos, caps, st)
              IN IF r.ok THEN r ELSE M(rest, text, pos, caps, st)
         [] e.t = "optcap" ->
              LET r == M(Cap(e.p) \o rest, text, pos, caps, st)
              IN IF r.ok THEN r ELSE M(rest, text, pos, Append(caps, None), st)
         [] e.t = "end" -> IF pos = Len(text) + 1 THEN M(rest, text, pos, caps, st) ELSE NoMatch
         [] e.t = "altp" -> MAltP(e.p, 1, rest, text, pos, caps, st)
         [] e.t = "nla" ->
              IF \E i \in DOMAIN e.a : Contains(SubSeq(text, pos, Len(text)), e.a[i])
              THEN NoMatch ELSE M(rest, text, pos, caps, st)

\* the alternatives of a literal from the k-th on, in order
MAlts(alts, k, rest, text, pos, caps, st) ==
  IF k > Len(alts) THEN NoMatch
  ELSE
    LET sr == SplitRest(text, pos, alts[k])
        q == pos + Len(alts[k]) - 1
        r == IF StartsAt(text, pos, alts[k])
             THEN M(rest, text, pos + Len(alts[k]), caps, st)
             ELSE IF sr # {}
             THEN M(rest, [text EXCEPT ![q] = (CHOOSE sp \in sr : TRUE)[3]], q, caps, st)
             ELSE NoMatch
    IN IF r.ok THEN r ELSE MAlts(alts, k + 1, rest, text, pos, caps, st)

\* the alternative sub-patterns from the k-th on, in order
MAltP(ps, k, rest, text, pos, caps, st) ==
  IF k > Len(ps) THEN NoMatch
  ELSE
    LET r == M(ps[k] \o rest, text, pos, caps, st)
    IN IF r.ok THEN r ELSE MAltP(ps, k + 1, rest, text, pos, caps, st)

\* consume n atoms, then n + step, ... up to the limit lim; for a run of
\* words the consumed part starts and ends with a non-space atom
MLen(rest, text, pos, caps, st, n, lim, inc, words) ==
  IF (inc < 0 /\ n < lim) \/ (inc > 0 /\ n > lim) THEN NoMatch
  ELSE
    LET fits == ~words \/ (text[pos] # SP /\ text[pos + n - 1] # SP)
        r == IF fits THEN M(rest, text, pos + n, caps, st) ELSE NoMatch
    IN IF r.ok THEN r ELSE MLen(rest, text, pos, caps, st, n + inc, lim, inc, words)

\* re.match(pattern, text, re.IGNORECASE)
Match(pat, text) == M(pat, text, 1, <<>>, 1)

\* match.groups()[-1]
LastGroup(m) == m.caps[Len(m.caps)]

\* re.search(pattern, text, re.IGNORECASE): the leftmost match, with its start
ReSearch(pat, text) ==
  LET S == {i \in 1..(Len(text) + 1) : M(pat, text, i, <<>>, i).ok}
  IN IF S = {} THEN [ok |-> FALSE, caps |-> <<>>, end |-> 0, start |-> 0]
     ELSE LET r == M(pat, text, MinOf(S), <<>>, MinOf(S))
          IN [ok |-> TRUE, caps |-> r.caps, end |-> r.end, start |-> MinOf(S)]

\* the text of a match found by ReSearch
Matched(text, r) == SubSeq(text, r.start, r.end - 1)

\* re.sub(pattern, '', text, flags=re.IGNORECASE)
RECURSIVE ReSubFrom(_, _, _)
ReSubFrom(pat, text, i) ==
  IF i > Len(text) THEN <<>>
  ELSE LET r == M(pat, text, i, <<>>, i)
       IN IF r.ok /\ r.end > i THEN ReSubFrom(pat, text, r.end)
          ELSE <<text[i]>> \o ReSubFrom(pat, text, i + 1)
ReSub(pat, text) == ReSubFrom(pat, text, 1)

(***************************************************************************)
(* The pattern tables of cli.py.                                           *)
(***************************************************************************)
TrailCls == Cls0(<<SP, "!", "?", ".">>)          \* [\s!?.]*

GREETING_PATTERNS ==
  << <<Lit(<< <<"hallo">>, <<"hi">>, <<"hey">>, <<"moin">>, <<"servus">>,
              Ph(<<"grüß", "gott">>), Ph(<<"guten", "morgen">>),
              Ph(<<"guten", "tag">>), Ph(<<"guten", "abend">>) >>),
       TrailCls, End>>,
     <<Lit(<< Ph(<<"wie", "geht's">>), Ph(<<"wie", "gehts">>),
              Ph(<<"wie", "geht", "es", "dir">>), Ph(<<"alles", "klar">>),
              Ph(<<"was", "geht">>) >>),
       TrailCls, End>>,
     <<Lit(<< <<"danke">>, Ph(<<"vielen", "dank">>), <<"thx">>, <<"thanks">> >>),
       OptG(<<W, AltP(<< <<L1("dir")>>, <<L1("danke")>>, <<L1("schön")>>,
                         <<L1("für"), W, OptG(<<L1("die"), W>>), L1("hilfe")>> >>)>>),
       TrailCls, End>>,
     <<Lit(<< <<"tschüss">>, <<"bye">>, <<"ciao">>, Ph(<<"auf", "wiedersehen">>) >>),
       TrailCls, End>> >>

\* (?!.*[/~])(?!.*\s+(?:in|von|zu|nach)\s+[/~]).*$ : the second lookahead
\* forbids less than the first
NoPathTail == <<NoLater(<< <<"/">>, <<"~">> >>), Any0, End>>

META_PATTERNS ==
  << <<A(<<"was", "wer">>), L1(SP), A(<<"bist", "kannst">>), L1(SP),
       A(<<"du", "ihr">>), TrailCls, End>>,
     <<Lit(<< Ph(<<"was", "kannst", "du">>), Ph(<<"wer", "bist", "du">>),
              Ph(<<"was", "bist", "du">>) >>)>> \o NoPathTail,
     <<Lit(<< Ph(<<"wie", "funktionierst", "du">>),
              Ph(<<"wie", "arbeitest", "du">>) >>)>> \o NoPathTail,
     <<L1("welche"), L1(SP), A(<<"dokumente", "dateien", "daten">>), L1(SP),
       A(<<"hast", "kennst", "stehen">>), L1(SP), A(<<"du", "dir">>)>> \o NoPathTail,
     <<AltP(<< <<L1("was"), L1(SP), A(<<"weißt", "weisst">>), L1(SP), L1("du")>>,
               <<L1("was"), L1(SP), A(<<"hast", "kannst">>), L1(SP), L1("du"), L1(SP),
                 A(<<"gelernt", "gespeichert">>)>> >>)>> \o NoPathTail,
     <<Lit(<< <<"hilfe">>, <<"help">>, Ph(<<"was", "kann", "ich", "fragen">>),
              Ph(<<"was", "kann", "ich", "dich", "fragen">>) >>)>> \o NoPathTail,
     <<A(<<"erkläre", "erklär">>), L1(SP),
       Lit(<< <<"dich">>, Ph(<<"mir", "wie", "du", "funktionierst">>) >>)>> \o NoPathTail,
     <<L1("woher"), L1(SP), A(<<"hast", "nimmst", "bekommst">>), L1(SP), L1("du"),
       L1(SP), A(<<"dein", "die">>), L1(SP),
       A(<<"wissen", "informationen", "daten">>)>> \o NoPathTail >>

HinzuAlts ==
  Lit(<< <<"hinzu">>, Ph(<<"zur", "datenbank">>), Ph(<<"zur", "wissensdatenbank">>) >>)

INDEX_PATTERNS ==
  << Cap(<<Lit(<< <<"indexiere">>, <<"indiziere">>, <<"lade">>, <<"importiere">>,
                  <<"verarbeite">>, <<"scanne">>, Ph(<<"lies", "ein">>),
                  Ph(<<"lies", "ei">>) >>)>>)
       \o <<W>> \o Cap(<<Any1>>) \o <<End>>,
     Cap(<<A(<<"füge", "füg">>)>>) \o <<W>> \o Cap(<<LazyWords>>) \o <<W>>
       \o Cap(<<HinzuAlts>>) \o <<End>>,
     Cap(<<A(<<"lerne", "lern">>)>>) \o <<W>> \o Cap(<<Any1>>) \o <<End>>,
     <<L1("ingest"), W>> \o Cap(<<Any1>>) \o <<End>> >>

CreateVerb ==
  Lit(<< <<"erstelle">>, <<"erstell">>, Ph(<<"lege", "an">>), <<"anlegen">> >>)
DbWord == A(<<"wissensdatenbank", "datenbank", "collection">>)
DbWords == A(<<"wissensdatenbanken", "datenbanken", "collections">>)
RestCap == Cap(<<Any1>>) \o <<End>>               \* (.+)$

COLLECTION_CREATE_PATTERNS ==
  << Cap(<<CreateVerb>>) \o <<W, OptG(<<L1("eine"), W>>), OptG(<<L1("neue"), W>>),
       DbWord, W,
       Lit(<< <<"namens">>, <<"namen">>, Ph(<<"mit", "dem", "namen">>), <<"genannt">> >>),
       W>> \o RestCap,
     Cap(<<CreateVerb>>) \o <<W, OptG(<<L1("eine"), W>>), OptG(<<L1("neue"), W>>),
       DbWord, W>> \o RestCap,
     <<OptCap(<<L1("neue"), W>>), DbWord, W>> \o RestCap >>

WhichDb ==
  Lit(<< <<"welche">>, Ph(<<"was", "sind", "die">>) >>)

COLLECTION_LIST_PATTERNS ==
  << Cap(<<Lit(<< <<"zeige">>, <<"zeig">>, <<"liste">>, <<"list">>,
                  Ph(<<"zeige", "mir">>), Ph(<<"zeig", "mir">>) >>)>>)
       \o <<W, OptG(<<L1("alle"), W>>), DbWords, End>>,
     Cap(<<WhichDb>>) \o <<W, DbWords, OptG(<<W, Lit(<<Ph(<<"gibt", "es">>)>>)>>), End>>,
     Cap(<<WhichDb>>) \o <<W, DbWords, W,
       Lit(<< Ph(<<"gibt", "es">>), <<"existieren">> >>), End>> >>

DeleteVerbC == A(<<"lösche", "lösch", "entferne", "entfern", "delete">>)

COLLECTION_DELETE_PATTERNS ==
  << Cap(<<DeleteVerbC>>) \o <<W, OptG(<<L1("die"), W>>), DbWord, W>> \o RestCap,
     Cap(<<DeleteVerbC>>) \o <<W>> \o RestCap >>

SwitchVerb == A(<<"wechsel", "wechsle", "nutze", "verwende", "use", "switch">>)

COLLECTION_SWITCH_PATTERNS ==
  << Cap(<<SwitchVerb>>) \o <<W, A(<<"zu", "zur">>), W, OptG(<<L1("der"), W>>),
       DbWord, W>> \o RestCap,
     Cap(<<SwitchVerb>>) \o <<W, A(<<"zu", "zur">>), W>> \o RestCap,
     Cap(<<SwitchVerb>>) \o <<W>> \o RestCap >>

COLLECTION_INFO_PATTERNS ==
  << Cap(<<Lit(<< <<"info">>, <<"informationen">>, <<"details">>,
                  Ph(<<"zeige", "info">>), Ph(<<"zeige", "informationen">>) >>)>>)
       \o <<W, A(<<"über", "von", "der", "die">>), W, DbWord, W>> \o RestCap,
     Cap(<<A(<<"info", "informationen", "details">>)>>) \o <<W>> \o RestCap >>

ListVerb == A(<<"zeige", "zeig", "liste", "list", "ls">>)
WhatVerb == Lit(<< <<"was">>, <<"welche">>, Ph(<<"was", "für">>) >>)
IsThere ==
  Lit(<< Ph(<<"befindet", "sich">>), Ph(<<"befidnet", "sich">>), Ph(<<"befidet", "sich">>),
         Ph(<<"befindt", "sich">>), Ph(<<"befinet", "sich">>), <<"ist">>, <<"sind">>,
         Ph(<<"gibt", "es">>) >>)
OnDesktop == Lit(<< Ph(<<"auf", "meinem", "desktop">>), Ph(<<"auf", "dem", "desktop">>) >>)

FS_LIST_PATTERNS ==
  << Cap(<<Lit(<< <<"zeige">>, <<"zeig">>, <<"liste">>, <<"list">>, <<"ls">>,
                  Ph(<<"zeige", "mir">>), Ph(<<"zeig", "mir">>) >>)>>)
       \o <<W, OptG(<<L1("den"), W>>),
            Lit(<< <<"inhalt">>, Ph(<<"inhalt", "von">>), <<"dateien">>,
                   Ph(<<"dateien", "in">>) >>),
            W, A(<<"von", "des", "der", "die">>), W0>> \o RestCap,
     Cap(<<WhatVerb>>) \o <<W, IsThere, W, OptG(<<L1("noch"), W>>),
            Lit(<< Ph(<<"in", "diesem", "pfad">>), Ph(<<"in", "diesem", "ordner">>),
                   <<"in">>, <<"dort">>, <<"darin">>, Ph(<<"auf", "meinem", "desktop">>),
                   Ph(<<"auf", "dem", "desktop">>), <<"hier">> >>),
            W0, OptG(<<L1(":")>>), W0>> \o RestCap,
     Cap(<<WhatVerb>>) \o <<W, IsThere, W, OptG(<<L1("noch"), W>>), OnDesktop,
            TrailCls, End>>,
     Cap(<<Lit(<< <<"welche">>, Ph(<<"was", "für">>) >>)>>)
       \o <<W, A(<<"dateien", "ordner", "verzeichnisse", "dokumente">>), W,
            Lit(<< Ph(<<"gibt", "es">>), <<"sind">>, Ph(<<"befinden", "sich">>) >>),
            W, A(<<"in", "dort", "darin">>), W0>> \o RestCap,
     <<OptCap(<<Lit(<<Ph(<<"kannst", "du", "mir">>)>>), W>>),
       A(<<"zusammenfassen", "zeigen", "zeig", "liste", "list", "ls">>), W,
       OptG(<<L1("was"), W>>), OptG(<<L1("sich"), W>>),
       Lit(<< Ph(<<"in", "diesem", "ordner">>), Ph(<<"in", "diesem", "verzeichnis">>),
              Ph(<<"in", "diesem", "pfad">>), Ph(<<"auf", "meinem", "desktop">>),
              Ph(<<"auf", "dem", "desktop">>) >>),
       W, A(<<"befindet", "befidnet", "befidet", "befindt", "befinet", "ist", "sind">>),
       W0, OptCap(<<Any1>>), End>>,
     Cap(<<ListVerb>>) \o <<W>> \o RestCap,
     Cap(<<ListVerb>>) \o <<End>> >>

NavVerb == A(<<"navigiere", "navigier", "gehe", "geh", "cd", "wechsel", "wechsle">>)

FS_NAVIGATE_PATTERNS ==
  << Cap(<<NavVerb>>) \o <<W,
       Lit(<< <<"zu">>, <<"nach">>, <<"in">>, Ph(<<"in", "das">>), Ph(<<"in", "den">>),
              Ph(<<"in", "die">>) >>), W>> \o RestCap,
     Cap(<<NavVerb>>) \o <<W>> \o RestCap >>

FS_WHERE_PATTERNS ==
  << Cap(<<Lit(<< Ph(<<"wo", "bin", "ich">>), <<"pwd">>,
                  Ph(<<"aktuelles", "verzeichnis">>), Ph(<<"aktueller", "ordner">>) >>)>>)
       \o <<End>> >>

TreeVerb ==
  Lit(<< <<"baum">>, <<"tree">>, <<"struktur">>, <<"verzeichnisstruktur">>,
         Ph(<<"zeige", "struktur">>) >>)

FS_TREE_PATTERNS ==
  << Cap(<<TreeVerb>>) \o <<W, A(<<"von", "des", "der", "die">>), W0>> \o RestCap,
     Cap(<<TreeVerb>>) \o <<W>> \o RestCap,
     Cap(<<TreeVerb>>) \o <<End>> >>

MkVerb ==
  Lit(<< <<"erstelle">>, <<"erstell">>, Ph(<<"lege", "an">>), <<"anlegen">>, <<"mkdir">> >>)

FS_CREATE_DIR_PATTERNS ==
  << Cap(<<MkVerb>>) \o <<W, OptG(<<L1("ein"), W>>),
       Lit(<< <<"verzeichnis">>, <<"ordner">>, Ph(<<"ordner", "namens">>),
              Ph(<<"verzeichnis", "namens">>) >>), W>> \o RestCap,
     Cap(<<MkVerb>>) \o <<W, NoLater(<< <<"datei">> >>)>> \o RestCap >>

FS_CREATE_FILE_PATTERNS ==
  << Cap(<<Lit(<< <<"erstelle">>, <<"erstell">>, Ph(<<"lege", "an">>), <<"anlegen">>,
                  <<"touch">> >>)>>)
       \o <<W, OptG(<<L1("eine"), W>>),
            Lit(<< <<"datei">>, Ph(<<"datei", "namens">>) >>), W>> \o RestCap >>

ToWord == A(<<"nach", "zu", "in">>)

FS_MOVE_PATTERNS ==
  << Cap(<<A(<<"verschiebe", "verschieb", "move", "mv", "umbenennen", "rename">>)>>)
       \o <<W>> \o Cap(<<Any1>>) \o <<W, ToWord, W>> \o RestCap >>

FS_COPY_PATTERNS ==
  << Cap(<<A(<<"kopiere", "kopier", "copy", "cp">>)>>)
       \o <<W>> \o Cap(<<Any1>>) \o <<W, ToWord, W>> \o RestCap >>

DeleteVerbF == A(<<"lösche", "lösch", "delete", "rm", "entferne", "entfern">>)

FS_DELETE_PATTERNS ==
  << Cap(<<DeleteVerbF>>) \o <<W, OptG(<<L1("die"), W>>),
       A(<<"datei", "ordner", "verzeichnis">>), W>> \o RestCap,
     Cap(<<DeleteVerbF>>) \o <<W>> \o RestCap >>

OrgVerb == A(<<"organisiere", "organisier", "strukturiere", "strukturier">>)
ModeTail ==
  Lit(<< <<"nach">>, Ph(<<"nach", "themen">>), Ph(<<"nach", "kategorien">>),
         Ph(<<"mit", "wissen">>), <<"intelligent">> >>)

FS_ORGANIZE_PATTERNS ==
  << Cap(<<OrgVerb>>) \o <<W, OptG(<<L1("die"), W>>),
       A(<<"dokumente", "dateien", "desktop">>), W,
       A(<<"in", "von", "des", "der", "die">>), W0>> \o Cap(<<Any1>>)
       \o <<W, ModeTail, End>>,
     Cap(<<OrgVerb>>) \o <<W>> \o Cap(<<Any1>>) \o <<W, ModeTail, End>>,
     Cap(<<A(<<"räume", "räum">>)>>) \o <<W, OptG(<<L1("bitte"), W>>),
       AltP(<< <<L1("auf"), OptG(<<W, L1("den"), W, L1("desktop")>>)>>,
               <<L1("den"), W, L1("desktop")>>,
               <<L1("das"), W, L1("verzeichnis")>> >>),
       W0, OptCap(<<Any1>>), End>> >>

SimilarWord ==
  Lit(<< <<"ähnliche">>, Ph(<<"ähnliche", "dateien">>), Ph(<<"ähnliche", "dokumente">>) >>)

FS_FIND_SIMILAR_PATTERNS ==
  << Cap(<<A(<<"finde", "find", "suche", "such">>)>>) \o <<W, SimilarWord, W,
       A(<<"zu", "von", "für">>), W>> \o RestCap,
     Cap(<<SimilarWord>>) \o <<W, A(<<"zu", "von", "für">>), W>> \o RestCap >>

\* the first pattern of the table that matches, as the for-loops of cli.py
RECURSIVE FirstMatchFrom(_, _, _)
FirstMatchFrom(pats, text, k) ==
  IF k > Len(pats) THEN [ok |-> FALSE, caps |-> <<>>, idx |-> 0]
  ELSE LET m == Match(pats[k], text)
       IN IF m.ok THEN [ok |-> TRUE, caps |-> m.caps, idx |-> k]
          ELSE FirstMatchFrom(pats, text, k + 1)
FirstMatch(pats, text) == FirstMatchFrom(pats, text, 1)
AnyMatch(pats, text) == FirstMatch(pats, text).ok

(***************************************************************************)
(* extract_path_from_text                                                  *)
(***************************************************************************)
\* re.sub(r'\bDestop\b', 'Desktop', ...), re.sub(r'\bDokumente\b', 'Documents', ...)
TypoFix(t) ==
  [i \in DOMAIN t |->
     IF Lower(t[i]) = "destop" THEN "Desktop"
     ELSE IF Lower(t[i]) = "dokumente" THEN "Documents"
     ELSE t[i]]

\* re.sub(r'\s+(?:und|dann).*$', '', path, flags=re.IGNORECASE)
CutConj(path) == ReSub(<<W, A(<<"und", "dann">>), Any0, End>>, path)

\* re.sub(r'/+', '/', path)
CollapseSlashes(p) == AtIdx(p, {i \in DOMAIN p : p[i] # "/" \/ i = 1 \/ p[i - 1] # "/"})

home_path_pattern == <<L1("~"), L1("/"), GreedyWords>>
\* the group (?:/[^\s"]+)* adds nothing to the greedy [^\s"]+ before it
absolute_path_pattern == <<L1("/"), Nsp>>
relative_path_pattern == <<L1("."), OptG(<<L1(".")>>), L1("/"), GreedyWords>>
FillerWords == A(<<"bitte", "den", "gesamten", "inhalt", "von", "aus">>)

StartsWith(t, lit) == StartsAt(t, 1, lit) /\ \A k \in DOMAIN lit : t[k] = lit[k]

IsRelative(p) == StartsWith(p, <<".", "/">>) \/ StartsWith(p, <<".", ".", "/">>)

\* the steps of extract_path_from_text; the function returns the first path
\* a step finds
HomePath(text_corrected) ==
  Bind(ReSearch(home_path_pattern, text_corrected), LAMBDA home :
    IF home.ok THEN Some(CutConj(Strip(Matched(text_corrected, home)))) ELSE None)

AbsolutePath(text_corrected) ==
  Bind(ReSearch(absolute_path_pattern, text_corrected), LAMBDA abs :
    IF ~abs.ok THEN None
    ELSE Bind(CutConj(Strip(Matched(text_corrected, abs))), LAMBDA path :
           IF StartsWith(path, <<"/">>) /\ ~StartsWith(path, <<".", "/">>)
           THEN Some(CollapseSlashes(path)) ELSE None))

RelativePath(text) ==
  Bind(Strip(text), LAMBDA st :
    IF IsRelative(st)
    THEN Bind(Match(relative_path_pattern, st), LAMBDA rel :
           IF ~rel.ok THEN None
           ELSE Bind(Strip(SubSeq(st, 1, rel.end - 1)), LAMBDA path :
                  IF IsRelative(path) THEN Some(path) ELSE None))
    ELSE Bind(ReSearch(relative_path_pattern, text), LAMBDA rel :
           IF ~rel.ok THEN None
           ELSE Bind(Strip(Matched(text, rel)), LAMBDA path :
                  IF IsRelative(path) THEN Some(path) ELSE None)))

BarePath(text) ==
  IF Contains(text, <<"/">>) /\ ~StartsWith(Strip(text), <<"~">>)
                            /\ ~StartsWith(Strip(text), <<"/">>)
  THEN Bind(Strip(ReSub(<<FillerWords, W0, OptG(<<L1(":")>>), W0>>, text)), LAMBDA cleaned :
         IF cleaned = <<>> \/ ~Contains(cleaned, <<"/">>) THEN None
         ELSE Bind(ReSearch(<<Nsp, L1("/"), Nsp>>, cleaned), LAMBDA bare :
                IF bare.ok THEN Some(Matched(cleaned, bare)) ELSE None))
  ELSE None

extract_path_from_text(text) ==
  Bind(TypoFix(text), LAMBDA text_corrected :
    Bind(HomePath(text_corrected), LAMBDA home :
      IF home.some THEN home
      ELSE Bind(AbsolutePath(text_corrected), LAMBDA abs :
             IF abs.some THEN abs
             ELSE Bind(RelativePath(text), LAMBDA rel :
                    IF rel.some THEN rel ELSE BarePath(text)))))

(***************************************************************************)
(* is_greeting, is_meta_question                                           *)
(***************************************************************************)
\* a pattern without the elements of one kind
Without1(pat, kind) == SelectSeq(pat, LAMBDA e : e.t # kind)

\* a classifier whose patterns are not anchored at the end
is_greeting_unanchored(line) ==
  AnyMatch([k \in DOMAIN GREETING_PATTERNS |-> Without1(GREETING_PATTERNS[k], "end")],
           LowerText(Strip(line)))

is_greeting(line) == AnyMatch(GREETING_PATTERNS, LowerText(Strip(line)))

\* a classifier that looks for no path, neither before nor in its patterns
is_meta_question_unguarded(line) ==
  AnyMatch([k \in DOMAIN META_PATTERNS |-> Without1(META_PATTERNS[k], "nla")],
           LowerText(Strip(line)))

is_meta_question(line) ==
  IF Truthy(extract_path_from_text(line)) THEN FALSE
  ELSE AnyMatch(META_PATTERNS, LowerText(Strip(line)))

(***************************************************************************)
(* Commands: the dicts the parsers return.  kind is "cmd" for a dict,      *)
(* "none" for None and "raise" for an exception leaving the parser.        *)
(***************************************************************************)
NoCmd ==
  [kind |-> "none", action |-> "", path |-> None, source |-> None, dest |-> None,
   name |-> None, query |-> <<>>, tidy |-> FALSE, recursive |-> FALSE]
Raised == [NoCmd EXCEPT !.kind = "raise"]
Cmd(action) == [NoCmd EXCEPT !.kind = "cmd", !.action = action]

\* re.sub with a pattern anchored at ^
ReSubAnchored(pat, text) ==
  LET r == M(pat, text, 1, <<>>, 1)
  IN IF r.ok THEN SubSeq(text, r.end, Len(text)) ELSE text

\* the name of the first pattern of the family that yields a non-empty name
FirstNamed(names) ==
  LET K == {k \in DOMAIN names : names[k] # <<>>}
  IN IF K = {} THEN <<>> ELSE names[MinOf(K)]

NameFiller ==
  <<W0, Lit(<< <<"namens">>, <<"namen">>, Ph(<<"mit", "dem", "namen">>), <<"genannt">> >>), W0>>

parse_collection_command(line) ==
  LET query_stripped == Normalize(line)
      last(pat) == LET m == Match(pat, query_stripped)
                   IN IF m.ok THEN Strip(LastGroup(m).v) ELSE <<>>
      create_name(pat) ==
        Strip(ReSub(<<W, A(<<"und", "dann", "oder">>), Any0, End>>,
                    ReSub(NameFiller, last(pat))))
      switch_name(pat) ==
        Strip(ReSub(<<W0, OptG(<<L1("der"), W>>), DbWord, W>>, last(pat)))
      info_name(pat) ==
        Strip(ReSub(<<W0, A(<<"über", "von", "der", "die", "wissensdatenbank",
                             "datenbank", "collection">>), W0>>, last(pat)))
      create == FirstNamed([k \in DOMAIN COLLECTION_CREATE_PATTERNS |->
                              create_name(COLLECTION_CREATE_PATTERNS[k])])
      delete == FirstNamed([k \in DOMAIN COLLECTION_DELETE_PATTERNS |->
                              last(COLLECTION_DELETE_PATTERNS[k])])
      switch == FirstNamed([k \in DOMAIN COLLECTION_SWITCH_PATTERNS |->
                              switch_name(COLLECTION_SWITCH_PATTERNS[k])])
      info == FirstNamed([k \in DOMAIN COLLECTION_INFO_PATTERNS |->
                            info_name(COLLECTION_INFO_PATTERNS[k])])
  IN IF create # <<>> THEN [Cmd("create") EXCEPT !.name = Some(create)]
     ELSE IF AnyMatch(COLLECTION_LIST_PATTERNS, query_stripped) THEN Cmd("list")
     ELSE IF delete # <<>> THEN [Cmd("delete") EXCEPT !.name = Some(delete)]
     ELSE IF switch # <<>> THEN [Cmd("switch") EXCEPT !.name = Some(switch)]
     ELSE IF info # <<>> THEN [Cmd("info") EXCEPT !.name = Some(info)]
     ELSE NoCmd

(***************************************************************************)
(* parse_filesystem_command                                                *)
(***************************************************************************)
ConfirmTail ==
  <<W, Lit(<< <<"jetzt">>, <<"wirklich">>, <<"ausführen">>, <<"ausfuehren">>,
              Ph(<<"mach", "das">>) >>), End>>

\* parse_query: the normalised query without one trailing confirmation word
ParseQuery(line) == Strip(ReSub(ConfirmTail, Normalize(line)))

HomeDir == <<"/", "home">>
\* os.path.expanduser
ExpandUser(p) ==
  IF p = <<"~">> \/ StartsWith(p, <<"~", "/">>) THEN HomeDir \o Tail(p) ELSE p
HomeDesktop == ExpandUser(<<"~", "/", "Desktop">>)

\* list: the Desktop special case
ListDesktop(path, whole, desk) ==
  IF ~desk THEN path
  ELSE IF Truthy(whole) /\ Contains(whole.v, <<"desktop">>) THEN whole.v
  ELSE IF \/ path = <<>>
          \/ /\ ~StartsWith(path, <<"/">>)
             /\ ~StartsWith(path, <<"~">>)
             /\ ~Contains(path, <<"desktop">>)
  THEN HomeDesktop
  ELSE path

\* list: the path extracted from the captured text, else from the whole query
ListExtract(path, whole, desk) ==
  IF path # <<>>
  THEN Bind(extract_path_from_text(path), LAMBDA own :
         IF Truthy(own) THEN own.v ELSE IF Truthy(whole) THEN whole.v ELSE path)
  ELSE IF Truthy(whole) THEN whole.v
  ELSE IF desk THEN HomeDesktop ELSE path

\* a path captured by a template, or the exception of None.strip()
ParseList(m, parse_query) ==
  Bind(LastGroup(m), LAMBDA g :
    IF ~g.some THEN Raised
    ELSE Bind(extract_path_from_text(parse_query), LAMBDA whole :
           Bind(Contains(parse_query, <<"desktop">>), LAMBDA desk :
             Bind(ListDesktop(Strip(g.v), whole, desk), LAMBDA path :
               [Cmd("list") EXCEPT !.path = Some(ListExtract(path, whole, desk))]))))

\* tidy: the captured source, unless it is only a filler or confirmation word
TidySource(g) ==
  Bind(IF Len(g) >= 2 /\ Truthy(g[2]) THEN Strip(g[2].v) ELSE <<>>, LAMBDA raw :
    IF LowerText(raw) \in {<<>>, <<"bitte">>, <<"jetzt">>, <<"wirklich">>, <<"ausführen">>,
                           <<"ausfuehren">>, <<"mach", SP, "das">>}
    THEN <<>> ELSE raw)

ParseTidy(m, parse_query, query_stripped) ==
  Bind(TidySource(m.caps), LAMBDA potential_source :
    Bind(IF potential_source = <<>> THEN HomeDesktop
         ELSE Bind(extract_path_from_text(potential_source), LAMBDA ex :
                IF Truthy(ex) THEN ex.v ELSE potential_source), LAMBDA source :
      [Cmd("organize") EXCEPT !.source = Some(source), !.dest = None,
                              !.query = query_stripped, !.tidy = TRUE]))

\* themes: the query without its verb phrase and without its mode
ThemesCleaned(parse_query) ==
  ReSub(<<W, ModeTail, Any0, End>>,
        ReSubAnchored(<<OrgVerb, W>>,
          ReSubAnchored(<<OrgVerb, W, OptG(<<L1("die"), W>>),
                          A(<<"dokumente", "dateien", "desktop">>), W,
                          A(<<"in", "von", "des", "der", "die">>), W0>>, parse_query)))

ThemesSource(g, parse_query) ==
  Bind(extract_path_from_text(parse_query), LAMBDA whole :
    Bind(IF Truthy(whole) THEN whole.v
         ELSE Bind(ThemesCleaned(parse_query), LAMBDA cleaned_query :
                Bind(extract_path_from_text(cleaned_query), LAMBDA exc :
                  IF Truthy(exc) THEN exc.v ELSE Strip(cleaned_query))), LAMBDA source :
      IF source # <<>> THEN source
      ELSE IF Len(g) >= 2 /\ Truthy(g[2]) THEN Strip(g[2].v) ELSE <<>>))

ThemesDest(parse_query) ==
  Bind(ReSearch(<<W, A(<<"nach", "in", "zu">>), W>> \o Cap(<<Any1>>) \o <<End>>, parse_query),
       LAMBDA dest_match :
         IF dest_match.ok THEN Some(Strip(dest_match.caps[1].v)) ELSE None)

\* the organize branch for one matching template; cont is the continue of
\* the loop
ParseThemes(m, parse_query, query_stripped) ==
  Bind(ThemesSource(m.caps, parse_query), LAMBDA source :
    [cont |-> source = <<>>,
     cmd |-> [Cmd("organize") EXCEPT !.source = Some(source), !.dest = ThemesDest(parse_query),
                                     !.query = query_stripped, !.tidy = FALSE]])

\* one turn of the loop over FS_ORGANIZE_PATTERNS
OrganizeOne(pat, tidyword, parse_query, query_stripped) ==
  Bind(Match(pat, parse_query), LAMBDA m :
    IF ~m.ok THEN [cont |-> TRUE, cmd |-> NoCmd]
    ELSE IF tidyword
    THEN [cont |-> FALSE, cmd |-> ParseTidy(m, parse_query, query_stripped)]
    ELSE ParseThemes(m, parse_query, query_stripped))

ParseOrganize(parse_query, query_stripped) ==
  Bind(Contains(parse_query, <<"räume">>) \/ Contains(parse_query, <<"räum">>),
       LAMBDA tidyword :
    Bind([k \in DOMAIN FS_ORGANIZE_PATTERNS |->
            OrganizeOne(FS_ORGANIZE_PATTERNS[k], tidyword, parse_query, query_stripped)],
         LAMBDA res :
      Bind({k \in DOMAIN res : ~res[k].cont}, LAMBDA K :
        IF K = {} THEN NoCmd ELSE res[MinOf(K)].cmd)))

PathCmd(action, pats, parse_query) ==
  [Cmd(action) EXCEPT !.path = Some(Strip(LastGroup(FirstMatch(pats, parse_query)).v))]

TwoPathCmd(action, pats, parse_query) ==
  LET g == FirstMatch(pats, parse_query).caps
  IN [Cmd(action) EXCEPT !.source = Some(Strip(g[2].v)), !.dest = Some(Strip(g[3].v))]

\* the filesystem templates, in the order of the function body
FsTemplates(parse_query, query_stripped) ==
  IF AnyMatch(FS_LIST_PATTERNS, parse_query)
  THEN ParseList(FirstMatch(FS_LIST_PATTERNS, parse_query), parse_query)
  ELSE IF AnyMatch(FS_NAVIGATE_PATTERNS, parse_query)
  THEN PathCmd("navigate", FS_NAVIGATE_PATTERNS, parse_query)
  ELSE IF AnyMatch(FS_WHERE_PATTERNS, parse_query) THEN Cmd("where")
  ELSE IF AnyMatch(FS_TREE_PATTERNS, parse_query)
  THEN PathCmd("tree", FS_TREE_PATTERNS, parse_query)
  ELSE IF AnyMatch(FS_CREATE_DIR_PATTERNS, parse_query)
  THEN PathCmd("create_dir", FS_CREATE_DIR_PATTERNS, parse_query)
  ELSE IF AnyMatch(FS_CREATE_FILE_PATTERNS, parse_query)
  THEN PathCmd("create_file", FS_CREATE_FILE_PATTERNS, parse_query)
  ELSE IF AnyMatch(FS_MOVE_PATTERNS, parse_query)
  THEN TwoPathCmd("move", FS_MOVE_PATTERNS, parse_query)
  ELSE IF AnyMatch(FS_COPY_PATTERNS, parse_query)
  THEN TwoPathCmd("copy", FS_COPY_PATTERNS, parse_query)
  ELSE IF AnyMatch(FS_DELETE_PATTERNS, parse_query)
  THEN PathCmd("delete", FS_DELETE_PATTERNS, parse_query)
  ELSE Bind(ParseOrganize(parse_query, query_stripped), LAMBDA organize :
         IF organize.kind = "cmd" THEN organize
         ELSE IF AnyMatch(FS_FIND_SIMILAR_PATTERNS, parse_query)
         THEN PathCmd("find_similar", FS_FIND_SIMILAR_PATTERNS, parse_query)
         ELSE NoCmd)

\* the collection command of the same text wins when the text has no path
CollectionWins(parse_query) ==
  /\ parse_collection_command(parse_query).kind = "cmd"
  /\ ~Truthy(extract_path_from_text(parse_query))

parse_filesystem_command(line) ==
  Bind(ParseQuery(line), LAMBDA parse_query :
    IF CollectionWins(parse_query) THEN NoCmd
    ELSE FsTemplates(parse_query, Normalize(line)))

(***************************************************************************)
(* parse_index_command                                                     *)
(***************************************************************************)
\* ' und ' in text.lower()
HasWord(t, w) ==
  \E i \in 1..(Len(t) - 2) : t[i] = SP /\ Lower(t[i + 1]) = w /\ t[i + 2] = SP

\* the text before the first ' und ' / ' dann ' (re.split, maxsplit=1)
FirstPart(qs) ==
  IF HasWord(qs, "und") \/ HasWord(qs, "dann")
  THEN Bind(ReSearch(<<W, A(<<"und", "dann">>), W>>, qs), LAMBDA r :
         IF r.ok THEN Strip(SubSeq(qs, 1, r.start - 1)) ELSE qs)
  ELSE qs

IsValidPath(p) ==
  /\ p # <<>>
  /\ \/ StartsWith(p, <<"/">>)
     \/ StartsWith(p, <<".", "/">>)
     \/ StartsWith(p, <<".", ".", "/">>)
     \/ StartsWith(p, <<"~", "/">>)
     \/ (\E i \in DOMAIN p : p[i] = "/") /\ ~StartsWith(p, <<"~">>)

CutHinzu(p) == ReSub(<<W, L1("hinzu"), Any0, End>>, p)

\* the fallback loop over the templates: the first template whose captured
\* text looks like a path
\* the text one template captures as the path
PotentialPath(idx, qs, hinzu) ==
  Bind(Match(INDEX_PATTERNS[idx], qs), LAMBDA m :
    IF ~m.ok THEN <<>>
    ELSE IF idx = 2 /\ Len(m.caps) >= 2 /\ hinzu THEN CutHinzu(Strip(m.caps[2].v))
    ELSE IF hinzu THEN CutHinzu(Strip(LastGroup(m).v))
    ELSE Strip(LastGroup(m).v))

IndexFallback(qs) ==
  Bind([idx \in DOMAIN INDEX_PATTERNS |-> PotentialPath(idx, qs, Contains(qs, <<"hinzu">>))],
       LAMBDA potential :
    Bind({idx \in DOMAIN potential : IsValidPath(potential[idx])}, LAMBDA K :
      IF K = {} THEN <<>> ELSE CutConj(potential[MinOf(K)])))

EndsWithFlag(p) ==
  /\ Len(p) >= 2
  /\ p[Len(p) - 1] = SP
  /\ p[Len(p)] \in {"-r", "rekursiv"}

\* the path before "hinzu" / "zur datenbank"
HinzuPath(qs) ==
  IF Contains(qs, <<"hinzu">>) \/ Contains(qs, <<"zur", SP, "datenbank">>)
  THEN Bind(ReSearch(<<W>> \o Cap(<<HinzuAlts>>), qs), LAMBDA hinzu_match :
         IF hinzu_match.ok
         THEN extract_path_from_text(
                ReSubAnchored(<<A(<<"füge", "füg">>), W>>,
                              Strip(SubSeq(qs, 1, hinzu_match.start - 1))))
         ELSE None)
  ELSE None

\* query_stripped.split(' und ', 1)
SplitsAtUnd(qs) ==
  \E i \in 1..(Len(qs) - 2) : qs[i] = SP /\ qs[i + 1] = "und" /\ qs[i + 2] = SP
BeforeUnd(qs) ==
  SubSeq(qs, 1, MinOf({i \in DOMAIN qs :
    i + 2 <= Len(qs) /\ qs[i] = SP /\ qs[i + 1] = "und" /\ qs[i + 2] = SP}) - 1)

\* the path found in the whole query: a relative path first, else what
\* extract_path_from_text finds, cut at the first ' und '
DirectPath(qs) ==
  Bind(ReSearch(<<L1("."), OptG(<<L1(".")>>), L1("/"), Nsp>>, qs), LAMBDA relative_match :
    Bind(IF relative_match.ok THEN Matched(qs, relative_match)
         ELSE Bind(extract_path_from_text(qs), LAMBDA whole :
                IF Truthy(whole) THEN whole.v ELSE <<>>), LAMBDA path_str :
      IF path_str # <<>> /\ HasWord(qs, "und") /\ SplitsAtUnd(qs)
      THEN Bind(extract_path_from_text(BeforeUnd(qs)), LAMBDA first_part_path :
             IF Truthy(first_part_path) THEN first_part_path.v ELSE path_str)
      ELSE path_str))

PathStr(qs) ==
  Bind(HinzuPath(qs), LAMBDA hinzu_path :
    IF Truthy(hinzu_path) THEN hinzu_path.v
    ELSE Bind(DirectPath(qs), LAMBDA path_str :
           IF path_str # <<>> THEN path_str ELSE IndexFallback(qs)))

\* the flag and the filler words removed from the path
CleanIndexPath(path_str, recursive) ==
  Strip(ReSub(<<W0, FillerWords, W0, OptG(<<L1(":")>>), W0, End>>,
          ReSubAnchored(<<OptG(<<L1("bitte"), W>>),
                          OptG(<<L1("den"), W, L1("gesamten"), W, L1("inhalt"), W0,
                                 OptG(<<L1(":")>>), W0>>)>>,
            IF recursive THEN ReSub(<<W, A(<<"-r", "rekursiv">>), End>>, path_str)
            ELSE path_str)))

parse_index_command(line) ==
  Bind(FirstPart(Normalize(line)), LAMBDA qs :
    IF ~AnyMatch(INDEX_PATTERNS, qs) THEN NoCmd
    ELSE Bind(PathStr(qs), LAMBDA path_str :
           IF path_str = <<>> THEN NoCmd
           ELSE Bind(EndsWithFlag(path_str), LAMBDA recursive :
                  Bind(CleanIndexPath(path_str, recursive), LAMBDA path :
                    IF path = <<>> THEN NoCmd
                    ELSE [Cmd("index") EXCEPT !.path = Some(path),
                                              !.recursive = recursive]))))

(***************************************************************************)
(* The confirmation gate and the dispatch of the chat loop                 *)
(***************************************************************************)
ConfirmTokens ==
  << <<"jetzt">>, <<"wirklich">>, <<"ausführen">>, <<"ausfuehren">>,
     <<"mach", SP, "das">>, <<"bitte", SP, "jetzt">> >>

\* a gate that knows the word "jetzt" only
_should_execute_now_jetzt(line) == Contains(line, <<"jetzt">>)

_should_execute_now(line) ==
  \E k \in DOMAIN ConfirmTokens : Contains(line, ConfirmTokens[k])

(***************************************************************************)
(* The lines a user types.  A line is a command phrase, an argument, a     *)
(* tail (flag, mode or a second argument), at most one confirmation        *)
(* phrase and up to MaxPunct trailing exclamation marks.                   *)
(***************************************************************************)
MaxPunct == 1

RECURSIVE Join(_)
\* the parts joined by single blanks, empty parts left out
Join(parts) ==
  IF parts = <<>> THEN <<>>
  ELSE LET rest == Join(Tail(parts))
       IN IF Head(parts) = <<>> THEN rest
          ELSE IF rest = <<>> THEN Head(parts)
          ELSE Head(parts) \o <<SP>> \o rest

AbsArg == <<"/", "Users", "/", "test">>
HomeArg == <<"~", "/", "test">>
RelArg == <<".", "/", "docs">>
NameArg == <<"projekt-2025">>

Heads ==
  { <<"ls">>, <<"liste">>, <<"zeige">>, <<"tree">>, <<"baum">>, <<"cd">>,
    Ph(<<"wechsel", "zu">>), <<"lösche">>, Ph(<<"erstelle", "datenbank">>),
    <<"indexiere">>, <<"füge">>, <<"organisiere">>, Ph(<<"räume", "auf">>),
    <<"verschiebe">>, Ph(<<"kannst", "du", "mir", "zeigen", "was", "sich", "in", "diesem", "ordner", "befindet">>),
    Ph(<<"zeige", "alle", "wissensdatenbanken">>), <<"hallo">>,
    Ph(<<"was", "kannst", "du">>), Ph(<<"wo", "bin", "ich">>) }

Args == { <<>>, AbsArg, HomeArg, RelArg, NameArg }

Tails ==
  { <<>>, <<"-r">>, <<"rekursiv">>, Ph(<<"nach", "themen">>), Ph(<<"mit", "wissen">>),
    <<"hinzu">>, <<"nach", SP, "/", "b">> }

Confirmations == {<<>>} \cup {ConfirmTokens[k] : k \in DOMAIN ConfirmTokens}

Bang(k) == [i \in 1..k |-> "!"]

Utterances ==
  { Join(<<h, a, t, c>>) \o Bang(k) :
      h \in Heads, a \in Args, t \in Tails, c \in Confirmations, k \in 0..MaxPunct }

(***************************************************************************)
(* State.  query is the line read by the chat loop and step the place of   *)
(* the loop body: "read" before a line is read, then the branches in the   *)
(* order of the body, "execute" when execute_filesystem_command has the    *)
(* command, "answered" when a branch has answered.  route is the branch    *)
(* that took the line ("" while none has), cmd its command, dry_run the    *)
(* decision of the organize branch of the executor, prior the command of   *)
(* the preview the user answered by typing the line again with a           *)
(* confirmation phrase.  fs and dirs are the files and the directories of  *)
(* the filesystem and links the files that are symbolic links to a file,   *)
(* planned the moves the last organize command planned,                    *)
(* and failed tells whether the executor reported an error for it.  When   *)
(* a function of cli.py is called on its own, query is its argument,       *)
(* called its name ("" before the call) and returned its return value.     *)
(* _current_dir is the directory of the navigator (None until it is first  *)
(* asked for), collection_name the active collection of the settings,      *)
(* collections the names of the collections the vector store holds and     *)
(* chat_history the messages of the turns the assistant has answered       *)
(* (dicts with role and content), shown the directory                      *)
(* the last list or tree command showed.  fault tells that an external     *)
(* capability (the filesystem, the vector store, the ingestion) raised     *)
(* while the line was handled, escaped that an exception reached the       *)
(* except clause of the loop.                                              *)
(***************************************************************************)
VARIABLES query, step, route, cmd, dry_run, prior, fs, dirs, links, planned, failed,
          _current_dir, collection_name, collections, chat_history, shown, fault, escaped,
          called, returned

routeVars == <<query, step, route, cmd, dry_run, prior>>
sessionVars == <<fs, dirs, links, planned, failed>>
callVars == <<called, returned>>
chatVars == <<_current_dir, collection_name, collections, chat_history, shown, fault, escaped>>
vars == <<routeVars, sessionVars, callVars, chatVars>>

\* settings.qdrant.collection_name when the chat starts
DefaultCollection == <<"chunks">>

\* the collections of the vector store
Collections == { <<"chunks">>, <<"notes">> }

\* the session when the chat starts: chat_history = []
NoChat ==
  /\ _current_dir = None
  /\ collection_name = DefaultCollection
  /\ collections = Collections
  /\ chat_history = <<>>
  /\ shown = None
  /\ fault = FALSE
  /\ escaped = FALSE

\* the dict _tidy_quick returns; a key the mode does not have is 0
NoReport ==
  [mode |-> "", files_considered |-> 0, planned_moves |-> 0, moved |-> 0, skipped |-> 0,
   too_many |-> FALSE]

\* nothing has been called and nothing returned
NoReturn == [flag |-> FALSE, path |-> None, cmd |-> NoCmd, text |-> <<>>, report |-> NoReport]

\* execute_filesystem_command, organize: use_knowledge and dry_run
UseKnowledge(c) ==
  \/ Contains(c.query, <<"mit", SP, "wissen">>)
  \/ Contains(c.query, <<"intelligent">>)
  \/ Contains(c.query, <<"wissen">>)

DryRun(c) == c.action = "organize" /\ ~_should_execute_now(c.query)

\* the route of the test suite: the cascade in its documented order
get_route(q) ==
  IF is_greeting(q) THEN "greeting"
  ELSE Bind(parse_filesystem_command(q), LAMBDA fs_cmd :
         IF fs_cmd.kind = "raise" THEN "error"
         ELSE IF fs_cmd.kind = "cmd" THEN "filesystem"
         ELSE IF parse_collection_command(q).kind = "cmd" THEN "collection"
         ELSE IF parse_index_command(q).kind = "cmd" THEN "index"
         ELSE IF is_meta_question(q) THEN "meta"
         ELSE "rag")

\* a branch of the loop body takes the line
Handled(r, c, next) ==
  /\ route' = r
  /\ cmd' = c
  /\ dry_run' = DryRun(c)
  /\ step' = next
  /\ UNCHANGED <<query, prior, sessionVars, callVars, chatVars>>

\* a branch leaves the line to the branches after it
Passed(next) ==
  /\ step' = next
  /\ UNCHANGED <<query, route, cmd, dry_run, prior, sessionVars, callVars, chatVars>>

\* chat: fs_cmd = parse_filesystem_command(query); if fs_cmd: ...; an
\* exception of the loop body is reported and the loop goes on
TakeFilesystem(fs_cmd) ==
  IF fs_cmd.kind = "raise" THEN Handled("error", NoCmd, "answered")
  ELSE IF fs_cmd.kind = "cmd" THEN Handled("filesystem", fs_cmd, "execute")
  ELSE Passed("collection")

RouteFilesystem ==
  /\ step = "filesystem"
  /\ TakeFilesystem(parse_filesystem_command(query))

TakeParsed(r, c, next) ==
  IF c.kind = "cmd" THEN Handled(r, c, "answered") ELSE Passed(next)

RouteCollection ==
  /\ step = "collection"
  /\ TakeParsed("collection", parse_collection_command(query), "index")

RouteIndex ==
  /\ step = "index"
  /\ TakeParsed("index", parse_index_command(query), "greeting")

RouteGreeting ==
  /\ step = "greeting"
  /\ IF is_greeting(query) THEN Handled("greeting", NoCmd, "answered") ELSE Passed("meta")

RouteMeta ==
  /\ step = "meta"
  /\ IF is_meta_question(query) THEN Handled("meta", NoCmd, "answered") ELSE Passed("rag")

RouteRag ==
  /\ step = "rag"
  /\ Handled("rag", NoCmd, "answered")

\* the user answers the preview of an organize command by typing the
\* command again, without its punctuation marks, with a confirmation phrase
\* appended, as the preview asks
Confirm ==
  /\ step = "execute"
  /\ cmd.action = "organize"
  /\ dry_run
  /\ prior.kind = "none"
  /\ \E k \in DOMAIN ConfirmTokens : query' = Normalize(query) \o <<SP>> \o ConfirmTokens[k]
  /\ prior' = cmd
  /\ step' = "filesystem"
  /\ route' = ""
  /\ cmd' = NoCmd
  /\ dry_run' = FALSE
  /\ UNCHANGED <<sessionVars, callVars, chatVars>>

\* the routing touches no file: the filesystem is left empty here
InitRoute ==
  /\ query \in Utterances
  /\ step = "filesystem"
  /\ route = ""
  /\ cmd = NoCmd
  /\ dry_run = FALSE
  /\ prior = NoCmd
  /\ fs = <<>>
  /\ dirs = {<<>>}
  /\ links = {}
  /\ planned = <<>>
  /\ failed = FALSE
  /\ called = ""
  /\ returned = NoReturn
  /\ NoChat

NextRoute ==
  \/ RouteFilesystem
  \/ RouteCollection
  \/ RouteIndex
  \/ RouteGreeting
  \/ RouteMeta
  \/ RouteRag
  \/ Confirm

SpecRoute == InitRoute /\ [][NextRoute]_vars

(***************************************************************************)
(* The functions of cli.py called on their own, as the tests call them:    *)
(* one text is the argument and the return value is kept.                  *)
(***************************************************************************)
\* paths as a user writes them, some followed by a conjunction and more
HomePaths ==
  { HomeArg, <<"~", "/", "Destop">>, <<"~", "/", "Destop", "/", "x.txt">>,
    HomeArg \o <<SP, "undatiert">>,
    <<"~", "/", "meine", SP, "docs", SP, "und", SP, "/", "b">>,
    <<"~", "/", "meine", SP, "undatiert", SP, "docs">>,
    HomeArg \o <<SP, "dann", SP, "/", "b">> }

AbsolutePaths ==
  { AbsArg, <<"/", "Users", "/", "/", "test">>,
    <<"/", "a", SP, "und", SP, "dann", SP, "etwas", SP, "anderes">>,
    <<"/", "a", SP, "und", SP, "/", "b">> }

DottedPaths ==
  { <<".", "/", "documents">>, <<".", ".", "/", "parent">>,
    <<".", "/", "documents", "/", "sub">> }

BarePaths == { <<"documents", "/", "folder">>, <<"documents", "/", "folder", "/", "sub">> }

WrittenPaths == HomePaths \cup AbsolutePaths \cup DottedPaths \cup BarePaths

\* command phrases that take one path
PathHeads ==
  { <<>>, <<"indexiere">>, <<"zeige">>, <<"cd">>, <<"tree">>, <<"lösche">>,
    Ph(<<"erstelle", "ordner">>), Ph(<<"erstelle", "datei">>),
    Ph(<<"finde", "ähnliche", "zu">>) }

TwoPathHeads == { <<"verschiebe">>, <<"kopiere">> }

TypoPaths ==
  { AbsArg, <<"/", "Users", "/", "/", "test">>, <<"~", "/", "Destop">> }

MetaPhrases ==
  { Ph(<<"was", "kannst", "du">>), Ph(<<"wer", "bist", "du">>), <<"hilfe">>,
    Ph(<<"wie", "funktionierst", "du">>) }

\* what follows a meta phrase: nothing, punctuation, further content words,
\* a clause with a path
ContentTails == { Ph(<<"über", "docker">>), <<"alles">>, Ph(<<"mir", "sagen">>) }
PathTails == { <<"in", SP, "/", "Users", "/", "test", SP, "finden">>,
               <<"in", SP, "~", "/", "test">> }
PunctTails == { <<>>, <<"?">>, <<SP, "?", "!">> }

GreetingPhrases ==
  { <<"hallo">>, <<"hi">>, Ph(<<"guten", "morgen">>), <<"danke">>,
    Ph(<<"danke", "dir">>), Ph(<<"wie", "geht", "es", "dir">>), <<"tschüss">> }

\* what follows a greeting: further words, with or without a comma
MoreWords ==
  { <<",", SP, "was", SP, "ist", SP, "rag", "?">>,
    <<",", SP, "indexiere", SP, "/", "Users", "/", "test">>,
    <<SP, "zusammen">>, <<SP, "und", SP, "tschüss">> }

\* the comma stays with the word before it: "hallo," is one atom
Glue(phrase, more) ==
  IF more # <<>> /\ Head(more) = ","
  THEN SubSeq(phrase, 1, Len(phrase) - 1) \o <<phrase[Len(phrase)] \o ",">> \o Tail(more)
  ELSE phrase \o more

\* tidy lines without a path: the words of politeness and of confirmation
\* before, between and after the words of the command
TidyBodies ==
  { <<"auf">>, Ph(<<"bitte", "auf">>), Ph(<<"auf", "bitte">>), Ph(<<"auf", "jetzt">>),
    Ph(<<"bitte", "auf", "jetzt">>), Ph(<<"jetzt", "auf">>), Ph(<<"auf", "jetzt", "bitte">>),
    Ph(<<"auf", "bitte", "jetzt">>), Ph(<<"den", "desktop">>),
    Ph(<<"auf", "den", "desktop", "jetzt">>), Ph(<<"den", "desktop", "bitte">>),
    Ph(<<"bitte", "auf", "mach", "das">>) }

TidyTexts == {Join(<<<<v>>, b>>) : v \in {"räume", "räum"}, b \in TidyBodies}

\* bare names, and the forms of the shell with two arguments
BareNames == { <<"x.txt">>, <<"datei.txt">>, <<"sub">> }
DeleteVerbs == { "lösche", "rm", "delete", "entferne" }
ShellTexts ==
  {Join(<<<<v>>, n>>) : v \in DeleteVerbs, n \in BareNames}
    \cup {Join(<<<<v>>, n, m>>) : v \in {"mv", "cp"}, n \in BareNames, m \in BareNames}

\* lines with blanks and marks at their end, with two confirmation words,
\* and with a doubled slash
MarkedTexts ==
  { <<"hallo", ".", SP, "!">>, <<"hallo", SP, SP, "!", "?">>,
    Join(<<<<"liste">>, AbsArg>>) \o <<".", SP, ".">>,
    Join(<<<<"zeige">>, <<SP>>, AbsArg>>) \o <<SP, SP, "jetzt", SP, "!">>,
    Ph(<<"räume", "auf", "wirklich", "jetzt">>), Ph(<<"räume", "auf", "jetzt", "jetzt">>),
    <<"/", "/">>, <<"liste", SP, "/", "/">> }

Texts ==
  {Join(<<h, p>>) : h \in PathHeads, p \in WrittenPaths}
    \cup TidyTexts
    \cup ShellTexts
    \cup MarkedTexts
    \cup {Join(<<h, p, <<"nach">>, q>>) : h \in TwoPathHeads, p \in TypoPaths, q \in TypoPaths}
    \cup {Join(<<m, tl>>) : m \in MetaPhrases, tl \in ContentTails \cup PathTails}
    \cup {m \o tl : m \in MetaPhrases, tl \in PunctTails}
    \cup {g \o tl : g \in GreetingPhrases, tl \in PunctTails}
    \cup {Glue(g, w) : g \in {<<"hallo">>, <<"hi">>}, w \in MoreWords}

\* a function is called with the text and returns
Returned(name, value) ==
  /\ step = "call"
  /\ called = ""
  /\ called' = name
  /\ returned' = value
  /\ UNCHANGED <<routeVars, sessionVars, chatVars>>

CallExtractPath ==
  Returned("extract_path_from_text", [NoReturn EXCEPT !.path = extract_path_from_text(query)])

CallParseIndex ==
  Returned("parse_index_command", [NoReturn EXCEPT !.cmd = parse_index_command(query)])

CallParseFilesystem ==
  Returned("parse_filesystem_command", [NoReturn EXCEPT !.cmd = parse_filesystem_command(query)])

CallIsGreeting ==
  Returned("is_greeting", [NoReturn EXCEPT !.flag = is_greeting(query)])

CallIsMetaQuestion ==
  Returned("is_meta_question", [NoReturn EXCEPT !.flag = is_meta_question(query)])

\* the first lines of the parsers: query_stripped and parse_query
CallNormalize ==
  Returned("parse_query", [NoReturn EXCEPT !.text = ParseQuery(query)])

InitCall ==
  /\ query \in Texts
  /\ step = "call"
  /\ route = ""
  /\ cmd = NoCmd
  /\ dry_run = FALSE
  /\ prior = NoCmd
  /\ fs = <<>>
  /\ dirs = {<<>>}
  /\ links = {}
  /\ planned = <<>>
  /\ failed = FALSE
  /\ called = ""
  /\ returned = NoReturn
  /\ NoChat

NextCall ==
  \/ CallExtractPath
  \/ CallParseIndex
  \/ CallParseFilesystem
  \/ CallIsGreeting
  \/ CallIsMetaQuestion
  \/ CallNormalize

SpecCall == InitCall /\ [][NextCall]_vars

(***************************************************************************)
(* The filesystem.  A path is the sequence of its components; a component  *)
(* is a name with its stem and its suffix, as pathlib splits it.  fs maps  *)
(* the paths of the files to their contents and dirs is the set of the     *)
(* directories.                                                            *)
(***************************************************************************)
Nm(stem, ext) == [stem |-> stem, ext |-> ext]

\* PurePath.stem and PurePath.suffix of the names the lines mention
AtomName(a) ==
  CASE a = "x.txt" -> Nm("x", ".txt")
    [] a = "datei.txt" -> Nm("datei", ".txt")
    [] a = "jetzt.txt" -> Nm("jetzt", ".txt")
    [] OTHER -> Nm(a, "")

RECURSIVE Concat(_)
Concat(atoms) == IF atoms = <<>> THEN "" ELSE Head(atoms) \o Concat(Tail(atoms))

RECURSIVE SplitSlash(_, _)
\* the parts of a path text between its slashes
SplitSlash(t, cur) ==
  LET done == IF cur = <<>> THEN <<>> ELSE <<cur>>
  IN IF t = <<>> THEN done
     ELSE IF Head(t) = "/" THEN done \o SplitSlash(Tail(t), <<>>)
     ELSE SplitSlash(Tail(t), Append(cur, Head(t)))

RECURSIVE Resolve(_, _)
Resolve(parts, base) ==
  IF parts = <<>> THEN base
  ELSE LET part == Head(parts)
           next == IF part = <<".">> THEN base
                   ELSE IF part = <<".", ".">>
                   THEN (IF base = <<>> THEN base ELSE SubSeq(base, 1, Len(base) - 1))
                   ELSE IF Len(part) = 1 THEN Append(base, AtomName(part[1]))
                   ELSE Append(base, Nm(Concat(part), ""))
       IN Resolve(Tail(parts), next)

\* the directory the process was started in
ProcessCwd == <<Nm("work", "")>>

\* Path(text).expanduser(), as the operating system resolves it
PathOf(text) ==
  LET e == ExpandUser(text)
  IN Resolve(SplitSlash(e, <<>>), IF StartsWith(e, <<"/">>) THEN <<>> ELSE ProcessCwd)

Parent(p) == SubSeq(p, 1, Len(p) - 1)
Last(p) == p[Len(p)]
Prefixes(p) == {SubSeq(p, 1, k) : k \in 0..Len(p)}
Under(p, d) == Len(p) >= Len(d) /\ SubSeq(p, 1, Len(d)) = d

\* source_path.parent / f"{source_path.name}{suffix}"
Sibling(p, suffix) == Append(Parent(p), Nm(Last(p).stem \o Last(p).ext \o suffix, ""))

\* f"{stem}_{counter}{suffix}"
Numbered(name, counter) == Nm(name.stem \o "_" \o ToString(counter), name.ext)

\* a state of the filesystem during a command; ok is FALSE once an
\* exception is on its way to the handler of the executor
IsFile(S, p) == p \in DOMAIN S.fs
IsDir(S, p) == p \in S.dirs
Exists(S, p) == IsFile(S, p) \/ IsDir(S, p)
Fail(S) == [S EXCEPT !.ok = FALSE]

Without(f, ps) == [q \in DOMAIN f \ ps |-> f[q]]
With(f, p, c) == [q \in DOMAIN f \cup {p} |-> IF q = p THEN c ELSE f[q]]

\* Path.mkdir(parents=True, exist_ok=True)
Mkdirs(S, d) ==
  IF \E q \in Prefixes(d) : IsFile(S, q) THEN Fail(S)
  ELSE [S EXCEPT !.dirs = @ \cup Prefixes(d)]

create_directory(S, d) ==
  IF ~S.ok THEN S
  ELSE IF IsDir(S, d) THEN S
  ELSE IF IsFile(S, d) THEN Fail(S)
  ELSE Mkdirs(S, d)

\* os.rename of a file onto a path that is no directory: an existing file
\* there is replaced
RenameFile(S, src, dst) ==
  [S EXCEPT !.fs = With(Without(@, {src}), dst, S.fs[src])]

\* os.rename of a directory to a free path
RenameDir(S, src, dst) ==
  LET to(q) == dst \o SubSeq(q, Len(src) + 1, Len(q))
      moved == {q \in DOMAIN S.fs : Under(q, src)}
      kept == DOMAIN S.fs \ moved
  IN [S EXCEPT
        !.fs = [q \in kept \cup {to(m) : m \in moved} |->
                  IF q \in kept THEN S.fs[q]
                  ELSE S.fs[CHOOSE m \in moved : to(m) = q]],
        !.dirs = {q \in @ : ~Under(q, src)} \cup {to(q) : q \in {r \in @ : Under(r, src)}}]

\* shutil.move
shutil_move(S, src, dst) ==
  LET real_dst == IF IsDir(S, dst) THEN Append(dst, Last(src)) ELSE dst
  IN IF IsDir(S, dst) /\ Exists(S, real_dst) THEN Fail(S)
     ELSE IF IsFile(S, src) THEN RenameFile(S, src, real_dst)
     ELSE IF Exists(S, real_dst) \/ Under(real_dst, src) THEN Fail(S)
     ELSE RenameDir(S, src, real_dst)

move_file_or_directory(S, src, dst) ==
  IF ~S.ok THEN S
  ELSE IF ~Exists(S, src) THEN Fail(S)
  ELSE LET T == Mkdirs(S, Parent(dst))
       IN IF ~T.ok THEN T ELSE shutil_move(T, src, dst)

delete_file_or_directory(S, p) ==
  IF ~Exists(S, p) THEN Fail(S)
  ELSE IF IsDir(S, p)
  THEN [S EXCEPT !.fs = Without(@, {q \in DOMAIN @ : Under(q, p)}),
                 !.dirs = {q \in @ : ~Under(q, p)}]
  ELSE [S EXCEPT !.fs = Without(@, {p})]

(***************************************************************************)
(* The three ways of organize.  Each returns the filesystem it leaves and  *)
(* the moves it planned.                                                   *)
(***************************************************************************)
max_files == 250

\* the categories of _tidy_quick, by suffix
Category(ext) ==
  CASE ext \in {".pdf", ".doc", ".docx", ".ppt", ".pptx", ".xls", ".xlsx", ".md", ".txt",
                ".rtf"} -> "Dokumente"
    [] ext \in {".png", ".jpg", ".jpeg", ".gif", ".webp", ".tiff", ".bmp"} -> "Bilder"
    [] ext \in {".zip", ".rar", ".7z", ".tar", ".gz"} -> "Archive"
    [] ext \in {".py", ".js", ".ts", ".tsx", ".jsx", ".json", ".yaml", ".yml", ".toml",
                ".ini", ".sh"} -> "Code"
    [] ext \in {".mp3", ".wav", ".m4a", ".mp4", ".mov", ".mkv"} -> "AudioVideo"
    [] OTHER -> "Sonstiges"

DOCLING_EXTENSIONS ==
  {".pdf", ".docx", ".pptx", ".xlsx", ".html", ".htm", ".md", ".txt", ".png", ".jpg",
   ".jpeg", ".tiff", ".bmp"}

\* the orders in which a directory can be listed
Perms(X) ==
  {o \in [1..Cardinality(X) -> X] : \A i, j \in DOMAIN o : i # j => o[i] # o[j]}

\* src.iterdir(), files only
TopFiles(S, src) == {p \in DOMAIN S.fs : Parent(p) = src}

Move(from, to) == [from |-> from, to |-> to]

RECURSIVE RunTidy(_, _)
\* for item in plan: create_directory(dest_folder); move_file_or_directory.
\* The items are taken in their order, the first half and then the rest.
RunTidy(S, plan) ==
  IF plan = <<>> \/ ~S.ok THEN S
  ELSE IF Len(plan) = 1
  THEN move_file_or_directory(create_directory(S, Parent(plan[1].to)),
                              plan[1].from, plan[1].to)
  ELSE Bind(RunTidy(S, SubSeq(plan, 1, Len(plan) \div 2)), LAMBDA T :
         RunTidy(T, SubSeq(plan, Len(plan) \div 2 + 1, Len(plan))))

\* p.name.startswith(".") on the names of the model
IsHidden(name) == name.stem \in {".hidden", ".DS_Store"}

\* p.suffix.lower() on the suffixes of the model
LowerExt(ext) == CASE ext = ".TXT" -> ".txt" [] ext = ".PNG" -> ".png" [] OTHER -> ext

\* files of _tidy_quick: the top-level entries for which is_file() holds,
\* a symbolic link to a file among them, that are not hidden
EligibleFiles(S, src) == {p \in TopFiles(S, src) : ~IsHidden(Last(p))}

\* the preview returns before anything is created
_tidy_quick_always(S, src, dst, dry, order) ==
  LET files == SubSeq(order, 1, MinOf({Len(order), max_files}))
      plan == [k \in DOMAIN files |->
                 Move(files[k], dst \o <<Nm(Category(LowerExt(Last(files[k]).ext)), ""), Last(files[k])>>)]
  IN IF ~IsDir(S, src) THEN [S |-> Fail(S), plan |-> <<>>]
     ELSE [S |-> RunTidy(create_directory(S, dst), plan), plan |-> plan]

\* _tidy_quick without files[:max_files]
_tidy_quick_uncapped(S, src, dst, dry, order) ==
  LET plan == [k \in DOMAIN order |->
                 Move(order[k], dst \o <<Nm(Category(LowerExt(Last(order[k]).ext)), ""), Last(order[k])>>)]
      seen == [NoReport EXCEPT !.files_considered = Len(order),
                               !.too_many = Len(order) > max_files]
  IN IF ~IsDir(S, src) THEN [S |-> Fail(S), plan |-> <<>>, report |-> NoReport]
     ELSE IF dry
     THEN [S |-> S, plan |-> plan,
           report |-> [seen EXCEPT !.mode = "dry_run", !.planned_moves = Len(plan)]]
     ELSE Bind(RunTidy(create_directory(S, dst), plan), LAMBDA T :
            [S |-> T, plan |-> plan,
             report |-> IF ~T.ok THEN NoReport
                        ELSE [seen EXCEPT !.mode = "executed", !.moved = Len(plan),
                                          !.skipped = MaxOf({0, Len(order) - Len(plan)})]])

\* order is files, the top-level files in the order of src.iterdir()
_tidy_quick(S, src, dst, dry, order) ==
  LET files == SubSeq(order, 1, MinOf({Len(order), max_files}))
      plan == [k \in DOMAIN files |->
                 Move(files[k], dst \o <<Nm(Category(LowerExt(Last(files[k]).ext)), ""), Last(files[k])>>)]
      seen == [NoReport EXCEPT !.files_considered = Len(order),
                               !.too_many = Len(order) > max_files]
  IN IF ~IsDir(S, src) THEN [S |-> Fail(S), plan |-> <<>>, report |-> NoReport]
     ELSE IF dry
     THEN [S |-> S, plan |-> plan,
           report |-> [seen EXCEPT !.mode = "dry_run", !.planned_moves = Len(plan)]]
     ELSE Bind(RunTidy(create_directory(S, dst), plan), LAMBDA T :
            [S |-> T, plan |-> plan,
             report |-> IF ~T.ok THEN NoReport
                        ELSE [seen EXCEPT !.mode = "executed", !.moved = Len(plan),
                                          !.skipped = MaxOf({0, Len(order) - Len(plan)})]])

RECURSIVE FreeName(_, _, _, _, _)
\* while dest_file.exists(): dest_file = folder / f"{stem}_{counter}{suffix}"
FreeName(S, folder, name, dest_file, counter) ==
  IF Exists(S, dest_file)
  THEN FreeName(S, folder, name, Append(folder, Numbered(name, counter)), counter + 1)
  ELSE dest_file

\* shutil.move inside try/except: a failure is logged and the loop goes on
TryMove(S, src, dst) ==
  LET T == shutil_move(S, src, dst) IN IF T.ok THEN T ELSE S

\* one file of a theme or one suggestion
PlaceFile(R, folder, file, dry) ==
  LET S1 == IF dry THEN R.S ELSE Mkdirs(R.S, folder)
      dest_file == FreeName(S1, folder, Last(file), Append(folder, Last(file)), 1)
  IN IF ~R.S.ok THEN R
     ELSE IF ~S1.ok THEN [R EXCEPT !.S = S1]
     ELSE IF ~Exists(S1, file) THEN [R EXCEPT !.S = S1]
     ELSE [S |-> IF dry THEN S1 ELSE TryMove(S1, file, dest_file),
           plan |-> Append(R.plan, Move(file, dest_file))]

RECURSIVE PlaceAll(_, _, _, _)
\* items: the files with the folder each goes to
PlaceAll(R, target, items, dry) ==
  IF items = <<>> \/ ~R.S.ok THEN R
  ELSE PlaceAll(PlaceFile(R, target \o Head(items).folder, Head(items).file, dry),
                target, Tail(items), dry)

\* the documents the analysers can load from a directory, recursively
Documents(S, src) ==
  {p \in DOMAIN S.fs : Under(p, src) /\ Last(p).ext \in DOCLING_EXTENSIONS}

Start(S, target, dry) == IF dry THEN S ELSE Mkdirs(S, target)

\* themes: the files in the order of the loop, each with the sanitised name
\* of its theme
organize_by_themes(S, src, target, dry, themes) ==
  IF ~Exists(S, src) THEN [S |-> Fail(S), plan |-> <<>>]
  ELSE IF themes = <<>> THEN [S |-> S, plan |-> <<>>]
  ELSE PlaceAll([S |-> Start(S, target, dry), plan |-> <<>>], target, themes, dry)

\* suggestions: the files in the order of the loop, each with the folder
\* parts of its suggestion
organize_with_knowledge(S, src, target, dry, suggestions) ==
  IF ~Exists(S, src) THEN [S |-> Fail(S), plan |-> <<>>]
  ELSE IF suggestions = <<>> THEN [S |-> S, plan |-> <<>>]
  ELSE PlaceAll([S |-> Start(S, target, dry), plan |-> <<>>], target, suggestions, dry)

ThemeFolders == { <<Nm("rechnung", "")>>, <<Nm("diverses", "")>> }
KnowledgeFolders ==
  { <<Nm("Diverses", ""), Nm("Unkategorisiert", "")>>,
    <<Nm("Kunden", ""), Nm("Huber", ""), Nm("Rechnungen", "")>> }

\* every way of giving each file of an order a folder
Placings(order, folders) ==
  {[k \in DOMAIN order |-> [file |-> order[k], folder |-> f[k]]] :
     f \in [DOMAIN order -> folders]}

\* analyze_document_themes: nothing below two loaded documents, else every
\* loaded document in one theme
analyze_document_themes(S, src) ==
  UNION {UNION {Placings(o, ThemeFolders) : o \in Perms(L)} :
           L \in {X \in SUBSET Documents(S, src) : Cardinality(X) >= 2}}
    \cup {<<>>}

\* suggest_organization_structure: one suggestion for each analysed document
suggest_organization_structure(S, src) ==
  UNION {UNION {Placings(o, KnowledgeFolders) : o \in Perms(L)} :
           L \in SUBSET Documents(S, src)}

(***************************************************************************)
(* The chat session on a filesystem: the filesystem branch of the loop     *)
(* with execute_filesystem_command, one action for each kind of command    *)
(* that can move or delete files.                                          *)
(***************************************************************************)
MaxPre == 1

SourceDir == PathOf(AbsArg)
FileArg == AbsArg \o <<"/", "x.txt">>
SubFileArg == AbsArg \o <<"/", "sub", "/", "x.txt">>

\* the documents of the user
BaseFiles == (PathOf(FileArg) :> 1) @@ (PathOf(SubFileArg) :> 2)

\* files that earlier runs may have left in the targets
PreExisting ==
  { Sibling(SourceDir, "_aufgeraeumt") \o <<Nm("Dokumente", ""), Nm("x", ".txt")>>,
    Sibling(SourceDir, "_organisiert_wissen")
      \o <<Nm("Diverses", ""), Nm("Unkategorisiert", ""), Nm("x", ".txt")>>,
    PathOf(<<"themen">>) \o <<Nm("rechnung", ""), Nm("x", ".txt")>> }

SessionCommands ==
  { Join(<<Ph(<<"räume", "auf">>), AbsArg>>),
    Join(<<<<"organisiere">>, AbsArg, Ph(<<"nach", "themen">>)>>),
    Join(<<<<"organisiere">>, AbsArg, Ph(<<"mit", "wissen">>)>>),
    Join(<<<<"lösche">>, FileArg>>),
    Join(<<<<"verschiebe">>, SubFileArg, <<"nach">>, AbsArg>>) }

\* a command alone, with the word the previews ask for, and with the polite
\* form of it
SessionConfirmations == { <<>>, <<"jetzt">>, <<"bitte", SP, "jetzt">> }

SessionLines == {Join(<<c, t>>) : c \in SessionCommands, t \in SessionConfirmations}

Now == [fs |-> fs, dirs |-> dirs, ok |-> TRUE]

\* chat: the next line of the user
ReadLine ==
  /\ step = "read"
  /\ query' \in SessionLines
  /\ step' = "filesystem"
  /\ route' = ""
  /\ cmd' = NoCmd
  /\ dry_run' = FALSE
  /\ planned' = <<>>
  /\ failed' = FALSE
  /\ UNCHANGED <<prior, fs, dirs, links, callVars, chatVars>>

\* execute_filesystem_command returns its report, an exception as an error
\* message, and the loop reads the next line
Executed(R) ==
  /\ fs' = R.S.fs
  /\ dirs' = R.S.dirs
  /\ links' = links
  /\ planned' = R.plan
  /\ failed' = ~R.S.ok
  /\ step' = "read"
  /\ UNCHANGED <<query, route, cmd, dry_run, prior, callVars, chatVars>>

Target(c, suffix) ==
  IF Truthy(c.dest) THEN PathOf(c.dest.v) ELSE Sibling(PathOf(c.source.v), suffix)

\* execute_filesystem_command, organize, quick tidy
ExecOrganizeTidy ==
  /\ step = "execute"
  /\ cmd.action = "organize"
  /\ cmd.tidy /\ ~UseKnowledge(cmd)
  /\ \E order \in Perms(EligibleFiles(Now, PathOf(cmd.source.v))) :
       Executed(_tidy_quick(Now, PathOf(cmd.source.v), Target(cmd, "_aufgeraeumt"),
                            dry_run, order))

\* execute_filesystem_command, organize by themes
ExecOrganizeThemes ==
  /\ step = "execute"
  /\ cmd.action = "organize"
  /\ ~UseKnowledge(cmd) /\ ~cmd.tidy
  /\ \E themes \in analyze_document_themes(Now, PathOf(cmd.source.v)) :
       Executed(organize_by_themes(Now, PathOf(cmd.source.v), Target(cmd, "_organisiert"),
                                   dry_run, themes))

\* execute_filesystem_command, organize with the indexed knowledge
ExecOrganizeKnowledge ==
  /\ step = "execute"
  /\ cmd.action = "organize"
  /\ UseKnowledge(cmd)
  /\ \E suggestions \in suggest_organization_structure(Now, PathOf(cmd.source.v)) :
       Executed(organize_with_knowledge(Now, PathOf(cmd.source.v),
                                        Target(cmd, "_organisiert_wissen"),
                                        dry_run, suggestions))

\* execute_filesystem_command, delete
ExecDelete ==
  /\ step = "execute"
  /\ cmd.action = "delete"
  /\ Executed([S |-> delete_file_or_directory(Now, PathOf(cmd.path.v)), plan |-> <<>>])

\* execute_filesystem_command, move
ExecMove ==
  /\ step = "execute"
  /\ cmd.action = "move"
  /\ Executed([S |-> move_file_or_directory(Now, PathOf(cmd.source.v), PathOf(cmd.dest.v)),
               plan |-> <<>>])

\* chat: the other branches answer without touching a file, and the loop
\* reads the next line
Answered ==
  /\ step = "answered"
  /\ step' = "read"
  /\ UNCHANGED <<query, route, cmd, dry_run, prior, sessionVars, callVars, chatVars>>

Init ==
  /\ query = <<>>
  /\ step = "read"
  /\ route = ""
  /\ cmd = NoCmd
  /\ dry_run = FALSE
  /\ prior = NoCmd
  /\ \E pre \in {P \in SUBSET PreExisting : Cardinality(P) <= MaxPre} :
       /\ fs = BaseFiles @@ [p \in pre |-> 3]
       /\ dirs = UNION {Prefixes(Parent(p)) : p \in DOMAIN BaseFiles \cup pre}
                   \cup Prefixes(ProcessCwd) \cup Prefixes(PathOf(HomeDir))
  /\ links = {}
  /\ planned = <<>>
  /\ failed = FALSE
  /\ called = ""
  /\ returned = NoReturn
  /\ NoChat

Next ==
  \/ ReadLine
  \/ RouteFilesystem
  \/ RouteCollection
  \/ RouteIndex
  \/ RouteGreeting
  \/ RouteMeta
  \/ RouteRag
  \/ ExecOrganizeTidy
  \/ ExecOrganizeThemes
  \/ ExecOrganizeKnowledge
  \/ ExecDelete
  \/ ExecMove
  \/ Answered

Spec == Init /\ [][Next]_vars

(***************************************************************************)
(* The chat session with its state: the directory of the navigator, the    *)
(* active collection and the history.  The lines navigate, name relative   *)
(* paths, switch the collection, index and ask; the capabilities outside   *)
(* the program (filesystem, vector store, ingestion, language model) may   *)
(* raise at any call.                                                      *)
(***************************************************************************)
MaxHistory == 1

\* navigator.get_current_dir: Path.cwd() until a directory has been set
get_current_dir(cd) == IF cd.some THEN cd.v ELSE ProcessCwd

CurrentDir == get_current_dir(_current_dir)

\* current / path and Path.resolve()
ResolveAt(text, base) == Resolve(SplitSlash(text, <<>>), base)

\* navigator.navigate_to: the directory set_current_dir is asked for
navigate_to(text, current) ==
  IF StartsWith(text, <<"/">>) THEN PathOf(text) ELSE ResolveAt(text, current)

\* set_current_dir with the assignment before its two tests
set_current_dir_unchecked(S, p, current) ==
  IF ~Exists(S, p) THEN [S |-> Fail(S), cd |-> p]
  ELSE IF ~IsDir(S, p) THEN [S |-> Fail(S), cd |-> p]
  ELSE [S |-> S, cd |-> p]

\* navigator.set_current_dir: the new directory, or the exception
set_current_dir(S, p, current) ==
  IF ~Exists(S, p) THEN [S |-> Fail(S), cd |-> current]
  ELSE IF ~IsDir(S, p) THEN [S |-> Fail(S), cd |-> current]
  ELSE [S |-> S, cd |-> p]

\* navigator.list_directory: the directory listed, or the exception
list_directory(S, d) ==
  IF ~Exists(S, d) THEN [S |-> Fail(S), view |-> None]
  ELSE IF ~IsDir(S, d) THEN [S |-> Fail(S), view |-> None]
  ELSE [S |-> S, view |-> Some(d)]

\* navigator.get_directory_tree: no lines for a path that is no directory
get_directory_tree(S, d) == IF IsDir(S, d) THEN Some(d) ELSE None

\* operations.create_file with its defaults: content "" and no overwrite
create_file(S, p) ==
  IF Exists(S, p) THEN Fail(S)
  ELSE LET T == Mkdirs(S, Parent(p))
       IN IF ~T.ok THEN T ELSE [T EXCEPT !.fs = With(@, p, 0)]

\* shutil.copy2
shutil_copy2(S, src, dst) ==
  LET real_dst == IF IsDir(S, dst) THEN Append(dst, Last(src)) ELSE dst
  IN IF IsDir(S, real_dst) \/ real_dst = src THEN Fail(S)
     ELSE [S EXCEPT !.fs = With(@, real_dst, S.fs[src])]

\* shutil.copytree(dirs_exist_ok=True)
shutil_copytree(S, src, dst) ==
  LET to(q) == dst \o SubSeq(q, Len(src) + 1, Len(q))
      copied == {q \in DOMAIN S.fs : Under(q, src)}
      made == {to(q) : q \in {r \in S.dirs : Under(r, src)}}
  IN IF IsFile(S, dst) \/ Under(dst, src) THEN Fail(S)
     ELSE IF \E q \in copied : IsDir(S, to(q)) THEN Fail(S)
     ELSE IF \E d \in made : IsFile(S, d) THEN Fail(S)
     ELSE [S EXCEPT
             !.fs = [q \in DOMAIN @ \cup {to(m) : m \in copied} |->
                       IF \E m \in copied : to(m) = q
                       THEN S.fs[CHOOSE m \in copied : to(m) = q]
                       ELSE S.fs[q]],
             !.dirs = @ \cup made]

copy_file_or_directory(S, src, dst) ==
  IF ~Exists(S, src) THEN Fail(S)
  ELSE LET T == Mkdirs(S, Parent(dst))
       IN IF ~T.ok THEN T
          ELSE IF IsDir(T, src) THEN shutil_copytree(T, src, dst)
          ELSE shutil_copy2(T, src, dst)


\* collection_manager.switch_collection: the active collection afterwards,
\* and whether ValueError was raised
switch_collection(name, active) ==
  IF Strip(name) = <<>> THEN [ok |-> FALSE, name |-> active]
  ELSE IF Strip(name) \notin collections THEN [ok |-> FALSE, name |-> active]
  ELSE [ok |-> TRUE, name |-> Strip(name)]

\* collection_manager.create_collection: the collections of the store
\* afterwards, whether ValueError was raised, and the value returned
create_collection(name, store) ==
  IF Strip(name) = <<>> THEN [ok |-> FALSE, created |-> FALSE, store |-> store]
  ELSE IF Strip(name) \in store THEN [ok |-> TRUE, created |-> FALSE, store |-> store]
  ELSE [ok |-> TRUE, created |-> TRUE, store |-> store \cup {Strip(name)}]

\* delete_collection without its test for the collection of the settings
delete_collection_forced(name, active, store, force) ==
  IF Strip(name) = <<>> THEN [ok |-> FALSE, store |-> store]
  ELSE IF Strip(name) \notin store THEN [ok |-> FALSE, store |-> store]
  ELSE [ok |-> TRUE, store |-> store \ {Strip(name)}]

\* collection_manager.delete_collection: the collections of the store
\* afterwards, and whether ValueError was raised
delete_collection(name, active, store, force) ==
  IF Strip(name) = <<>> THEN [ok |-> FALSE, store |-> store]
  ELSE IF Strip(name) \notin store THEN [ok |-> FALSE, store |-> store]
  ELSE IF Strip(name) = active /\ ~force THEN [ok |-> FALSE, store |-> store]
  ELSE [ok |-> TRUE, store |-> store \ {Strip(name)}]

ChatLines ==
  { Join(<<<<"cd">>, AbsArg>>),
    Ph(<<"cd", "sub">>),
    Join(<<<<"cd">>, FileArg>>),
    <<"cd", SP, "/", "Users", "/", "missing">>,
    Ph(<<"liste", "sub">>),
    Ph(<<"tree", "sub">>),
    Ph(<<"erstelle", "ordner", "neu">>),
    Ph(<<"erstelle", "datei", "datei.txt">>),
    <<"lösche", SP, "sub", "/", "x.txt">>,
    Join(<<<<"lösche">>, AbsArg>>),
    Ph(<<"verschiebe", "x.txt", "nach", "sub">>),
    Ph(<<"kopiere", "x.txt", "nach", "neu">>),
    <<"pwd">>,
    Ph(<<"wechsle", "zu", "notes">>),
    Ph(<<"wechsle", "zu", "fehlt">>),
    Join(<<<<"indexiere">>, AbsArg>>),
    <<"indexiere", SP, "/", "Users", "/", "missing">>,
    <<"hallo">>,
    Ph(<<"was", "ist", "rag">>),
    Ph(<<"kannst", "du", "mir", "zeigen", "was", "sich", "in", "diesem", "ordner",
         "befindet">>) }

\* chat: the next line of the user goes to the cascade of the branches
ChatReadLine ==
  /\ step = "read"
  /\ query' \in ChatLines
  /\ step' = "filesystem"
  /\ route' = ""
  /\ cmd' = NoCmd
  /\ dry_run' = FALSE
  /\ planned' = <<>>
  /\ failed' = FALSE
  /\ shown' = None
  /\ fault' = FALSE
  /\ escaped' = FALSE
  /\ UNCHANGED <<prior, fs, dirs, links, callVars, _current_dir, collection_name, collections, chat_history>>

\* chat: the control token clear empties the history and the loop reads on
Clear ==
  /\ step = "read"
  /\ query' = <<"clear">>
  /\ chat_history' = <<>>
  /\ route' = ""
  /\ cmd' = NoCmd
  /\ dry_run' = FALSE
  /\ planned' = <<>>
  /\ failed' = FALSE
  /\ shown' = None
  /\ fault' = FALSE
  /\ escaped' = FALSE
  /\ UNCHANGED <<step, prior, fs, dirs, links, callVars, _current_dir, collection_name, collections>>

\* execute_filesystem_command returns its status, an exception of its own
\* functions as an error status, and the loop reads the next line
Reported(S, cd, view) ==
  /\ fs' = S.fs
  /\ dirs' = S.dirs
  /\ links' = links
  /\ planned' = <<>>
  /\ failed' = ~S.ok
  /\ _current_dir' = cd
  /\ shown' = view
  /\ step' = "read"
  /\ UNCHANGED <<query, route, cmd, dry_run, prior, callVars, collection_name, collections,
                 chat_history, fault, escaped>>

\* execute_filesystem_command, list: the path with its typos corrected
ListPath(c) ==
  IF ~Truthy(c.path) THEN c.path
  ELSE Bind(extract_path_from_text(c.path.v), LAMBDA corrected_path :
         IF Truthy(corrected_path) /\ corrected_path.v # c.path.v
         THEN corrected_path ELSE c.path)

\* execute_filesystem_command, list
ExecList ==
  /\ step = "execute"
  /\ cmd.action = "list"
  /\ Bind(ListPath(cmd), LAMBDA p :
       IF p.some
       THEN Bind(list_directory(Now, PathOf(p.v)), LAMBDA r :
              Reported(r.S, _current_dir, r.view))
       ELSE Bind(list_directory(Now, CurrentDir), LAMBDA r :
              Reported(r.S, Some(CurrentDir), r.view)))

\* execute_filesystem_command, navigate
ExecNavigate ==
  /\ step = "execute"
  /\ cmd.action = "navigate"
  /\ IF ~Truthy(cmd.path) THEN Reported(Fail(Now), _current_dir, None)
     ELSE Bind(set_current_dir(Now, navigate_to(cmd.path.v, CurrentDir), CurrentDir),
               LAMBDA r : Reported(r.S, Some(r.cd), None))

\* execute_filesystem_command, where
ExecWhere ==
  /\ step = "execute"
  /\ cmd.action = "where"
  /\ Reported(Now, Some(CurrentDir), None)

\* execute_filesystem_command, tree
ExecTree ==
  /\ step = "execute"
  /\ cmd.action = "tree"
  /\ IF cmd.path.some
     THEN Reported(Now, _current_dir, get_directory_tree(Now, PathOf(cmd.path.v)))
     ELSE Reported(Now, Some(CurrentDir), get_directory_tree(Now, CurrentDir))

\* execute_filesystem_command, create_dir
ExecCreateDir ==
  /\ step = "execute"
  /\ cmd.action = "create_dir"
  /\ IF ~Truthy(cmd.path) THEN Reported(Fail(Now), _current_dir, None)
     ELSE Reported(create_directory(Now, PathOf(cmd.path.v)), _current_dir, None)

\* execute_filesystem_command, create_file
ExecCreateFile ==
  /\ step = "execute"
  /\ cmd.action = "create_file"
  /\ IF ~Truthy(cmd.path) THEN Reported(Fail(Now), _current_dir, None)
     ELSE Reported(create_file(Now, PathOf(cmd.path.v)), _current_dir, None)

\* execute_filesystem_command, copy
ExecCopy ==
  /\ step = "execute"
  /\ cmd.action = "copy"
  /\ IF ~Truthy(cmd.source) \/ ~Truthy(cmd.dest) THEN Reported(Fail(Now), _current_dir, None)
     ELSE Reported(copy_file_or_directory(Now, PathOf(cmd.source.v), PathOf(cmd.dest.v)),
                   _current_dir, None)

\* a line has been handled with this outcome and the loop reads the next
Outcome(status, raised, left) ==
  /\ failed' = status
  /\ fault' = raised
  /\ escaped' = left
  /\ step' = "read"

\* execute_filesystem_command: a call to the filesystem raises inside the
\* try of the executor and the exception becomes the error status
ExecFault ==
  /\ step = "execute"
  /\ Outcome(TRUE, TRUE, FALSE)
  /\ UNCHANGED <<query, route, cmd, dry_run, prior, fs, dirs, links, planned, callVars,
                 _current_dir, collection_name, collections, chat_history, shown>>

\* execute_collection_command; the vector store may raise at any call,
\* and the exception becomes the error status
ExecCollection ==
  /\ step = "answered"
  /\ route = "collection"
  /\ \E raises \in BOOLEAN :
       IF raises
       THEN Outcome(TRUE, TRUE, FALSE) /\ UNCHANGED <<collection_name, collections>>
       ELSE IF cmd.action \in {"create", "delete", "switch"} /\ ~Truthy(cmd.name)
       THEN Outcome(TRUE, FALSE, FALSE) /\ UNCHANGED <<collection_name, collections>>
       ELSE IF cmd.action = "create"
       THEN Bind(create_collection(cmd.name.v, collections), LAMBDA r :
              /\ Outcome(~r.ok, FALSE, FALSE)
              /\ collections' = r.store
              /\ UNCHANGED collection_name)
       ELSE IF cmd.action = "delete"
       THEN Bind(delete_collection(cmd.name.v, collection_name, collections, FALSE), LAMBDA r :
              /\ Outcome(~r.ok, FALSE, FALSE)
              /\ collections' = r.store
              /\ UNCHANGED collection_name)
       ELSE IF cmd.action = "switch"
       THEN Bind(switch_collection(cmd.name.v, collection_name), LAMBDA r :
              /\ Outcome(~r.ok, FALSE, FALSE)
              /\ collection_name' = r.name
              /\ UNCHANGED collections)
       ELSE Outcome(FALSE, FALSE, FALSE) /\ UNCHANGED <<collection_name, collections>>
  /\ UNCHANGED <<query, route, cmd, dry_run, prior, fs, dirs, links, planned, callVars,
                 _current_dir, chat_history, shown>>

\* execute_indexing: the test path.exists() stands before the try, the
\* ingestion inside it
ExecIndexing ==
  /\ step = "answered"
  /\ route = "index"
  /\ \E raises \in {"exists", "ingest", "nothing"} :
       IF raises = "exists" THEN Outcome(FALSE, TRUE, TRUE)
       ELSE IF ~Exists(Now, PathOf(cmd.path.v)) THEN Outcome(TRUE, FALSE, FALSE)
       ELSE IF raises = "ingest" THEN Outcome(TRUE, TRUE, FALSE)
       ELSE Outcome(FALSE, FALSE, FALSE)
  /\ UNCHANGED <<query, route, cmd, dry_run, prior, fs, dirs, links, planned, callVars,
                 _current_dir, collection_name, collections, chat_history, shown>>

\* the text the language model returned
Response == <<"antwort">>

\* the messages a turn appends to the history, without that of the assistant
TurnOfUser(line, response) == <<[role |-> "user", content |-> line]>>

\* chat: the two messages a completed turn appends to the history
Turn(line, response) ==
  <<[role |-> "user", content |-> line], [role |-> "assistant", content |-> response]>>

\* chat: the greeting, the meta question and the question to the knowledge
\* base are answered by the language model and appended to the history; an
\* exception of the model reaches the except clause of the loop
ChatAnswer ==
  /\ step = "answered"
  /\ route \in {"greeting", "meta", "rag"}
  /\ \E raises \in BOOLEAN :
       IF raises THEN Outcome(FALSE, TRUE, TRUE) /\ UNCHANGED chat_history
       ELSE /\ Len(chat_history) < 2 * MaxHistory
            /\ Outcome(FALSE, FALSE, FALSE)
            /\ chat_history' = chat_history \o Turn(query, Response)
  /\ UNCHANGED <<query, route, cmd, dry_run, prior, fs, dirs, links, planned, callVars,
                 _current_dir, collection_name, collections, shown>>

\* chat: except Exception, for an exception of a parser
ChatError ==
  /\ step = "answered"
  /\ route = "error"
  /\ Outcome(FALSE, FALSE, TRUE)
  /\ UNCHANGED <<query, route, cmd, dry_run, prior, fs, dirs, links, planned, callVars,
                 _current_dir, collection_name, collections, chat_history, shown>>

\* the documents of the user, and one in the directory the process was
\* started in
ChatFiles == BaseFiles @@ (Append(ProcessCwd, Nm("x", ".txt")) :> 3)

InitChat ==
  /\ query = <<>>
  /\ step = "read"
  /\ route = ""
  /\ cmd = NoCmd
  /\ dry_run = FALSE
  /\ prior = NoCmd
  /\ fs = ChatFiles
  /\ links = {}
  /\ dirs = UNION {Prefixes(Parent(p)) : p \in DOMAIN ChatFiles} \cup Prefixes(PathOf(HomeDir))
  /\ planned = <<>>
  /\ failed = FALSE
  /\ called = ""
  /\ returned = NoReturn
  /\ NoChat

NextChat ==
  \/ ChatReadLine
  \/ Clear
  \/ RouteFilesystem
  \/ RouteCollection
  \/ RouteIndex
  \/ RouteGreeting
  \/ RouteMeta
  \/ RouteRag
  \/ ExecList
  \/ ExecNavigate
  \/ ExecWhere
  \/ ExecTree
  \/ ExecCreateDir
  \/ ExecCreateFile
  \/ ExecMove
  \/ ExecCopy
  \/ ExecDelete
  \/ ExecFault
  \/ ExecCollection
  \/ ExecIndexing
  \/ ChatAnswer
  \/ ChatError

SpecChat == InitChat /\ [][NextChat]_vars

(***************************************************************************)
(* _tidy_quick called on its own, on a directory with few files and with   *)
(* about max_files files.                                                  *)
(***************************************************************************)
MaxOver == 2

\* the numbers of top-level files: none or few, and around the limit
TidySizes == 0..2 \cup (max_files - 2)..(max_files + MaxOver)

\* documents, pictures, files without a suffix and suffixes in capitals
TidyExt(i) ==
  CASE i % 4 = 0 -> ".txt" [] i % 4 = 1 -> ".png" [] i % 4 = 2 -> ".xyz" [] OTHER -> ".TXT"

TidyFile(i) == Append(SourceDir, Nm("f" \o ToString(i), TidyExt(i)))

TidyTarget == Sibling(SourceDir, "_aufgeraeumt")

\* a symbolic link in the source directory to a file outside it
TidyLink == Append(SourceDir, Nm("link", ".txt"))

\* two of the orders in which src.iterdir() can list the files E: by
\* number with the link last, and the link first with the numbers falling
ListingOrders(E) ==
  LET n == Cardinality(E \ {TidyLink})
      others == IF TidyLink \in E THEN <<TidyLink>> ELSE <<>>
  IN { [k \in 1..n |-> TidyFile(k)] \o others, others \o [k \in 1..n |-> TidyFile(n + 1 - k)] }

\* where the entry p is after the moves of plan
After(p, plan, done) ==
  IF done /\ \E k \in DOMAIN plan : plan[k].from = p
  THEN plan[CHOOSE k \in DOMAIN plan : plan[k].from = p].to
  ELSE p

\* result = _tidy_quick(source, dest, dry_run=dry_run, max_files=250)
CallTidyQuick ==
  /\ step = "call"
  /\ called = ""
  /\ called' = "_tidy_quick"
  /\ \E order \in ListingOrders(EligibleFiles(Now, SourceDir)) :
       Bind(_tidy_quick(Now, SourceDir, TidyTarget, dry_run, order), LAMBDA r :
         /\ fs' = r.S.fs
         /\ dirs' = r.S.dirs
         /\ links' = {After(l, r.plan, r.report.mode = "executed") : l \in links}
         /\ planned' = r.plan
         /\ failed' = ~r.S.ok
         /\ returned' = [NoReturn EXCEPT !.report = r.report])
  /\ UNCHANGED <<routeVars, chatVars>>

\* the directory holds n files and a subdirectory, with or without a
\* hidden file and a symbolic link to a file; the target may hold a file
\* where a category folder goes
InitTidy ==
  /\ query = <<>>
  /\ step = "call"
  /\ route = ""
  /\ cmd = NoCmd
  /\ dry_run \in BOOLEAN
  /\ prior = NoCmd
  /\ \E n \in TidySizes, hidden \in BOOLEAN, blocked \in BOOLEAN, linked \in BOOLEAN :
       LET files == {TidyFile(i) : i \in 1..n}
           others == (IF hidden THEN {Append(SourceDir, Nm(".hidden", ""))} ELSE {})
                       \cup (IF linked THEN {TidyLink} ELSE {})
                       \cup {SourceDir \o <<Nm("sub", ""), Nm("x", ".txt")>>}
                       \cup (IF blocked THEN {Append(TidyTarget, Nm("Bilder", ""))} ELSE {})
       IN /\ fs = [p \in files \cup others |-> 1]
          /\ links = IF linked THEN {TidyLink} ELSE {}
          /\ dirs = UNION {Prefixes(Parent(p)) : p \in others} \cup Prefixes(SourceDir)
  /\ planned = <<>>
  /\ failed = FALSE
  /\ called = ""
  /\ returned = NoReturn
  /\ NoChat

NextTidy == CallTidyQuick

SpecTidy == InitTidy /\ [][NextTidy]_vars

(***************************************************************************)
(* Properties of the routing                                               *)
(***************************************************************************)
\* the templates of the filesystem family, applied to the normalised line
FsRecognises(q) == FsTemplates(Normalize(q), Normalize(q)).kind = "cmd"
CollectionRecognises(q) == parse_collection_command(q).kind = "cmd"

\* C1: a line that both the filesystem and the collection templates
\* recognise is routed to the filesystem command if a path can be extracted
\* from it, and to the collection command if not.
C1_PathDecidesFamily ==
  (route # "" /\ FsRecognises(query) /\ CollectionRecognises(query))
    => IF Truthy(extract_path_from_text(query))
       THEN route = "filesystem"
       ELSE route = "collection"

Outcomes == {"greeting", "filesystem", "collection", "index", "meta", "rag"}

\* C2: every line ends in exactly one of the six outcomes, and the branch
\* the chat loop takes is the one of the cascade greeting, filesystem,
\* collection, index, meta question, RAG.
C2_DispatchIsCascade ==
  route # "" => (route \in Outcomes /\ route = get_route(query))

HasConfirmation(t) == \E k \in DOMAIN ConfirmTokens : Contains(t, ConfirmTokens[k])

\* C3: an organize command is a preview exactly when the line, normalised
\* but with its confirmation words kept, contains no confirmation token.
C3_DryRunIffNoToken ==
  (route = "filesystem" /\ cmd.action = "organize")
    => (dry_run <=> ~HasConfirmation(Normalize(query)))

\* C3 witness: an organize line with a confirmation token was routed and is
\* executed, not previewed.
C3_Witness ==
  /\ route = "filesystem"
  /\ cmd.action = "organize"
  /\ HasConfirmation(Normalize(query))
  /\ ~dry_run

\* C4: a recognised organize line typed again with any confirmation token
\* appended is an organize command with the same source that executes.
C4_ConfirmedStillOrganize ==
  (prior.kind = "cmd" /\ route # "")
    => /\ route = "filesystem"
       /\ cmd.action = "organize"
       /\ cmd.source = prior.source
       /\ ~dry_run

\* C8: no line makes a parser raise.
C8_ParsersNeverRaise == route # "error"

BareVerbs == { <<"ls">>, <<"liste">>, <<"zeige">>, <<"tree">>, <<"baum">> }

\* C9: a bare listing or tree verb gives a list or tree command whose path
\* is None.
C9_BareVerbPathNone ==
  (route # "" /\ Normalize(query) \in BareVerbs)
    => /\ route = "filesystem"
       /\ cmd.action \in {"list", "tree"}
       /\ ~cmd.path.some

\* C10: an index command is recursive exactly when the line ends in the
\* token -r or rekursiv, and its path never keeps the token.
C10_RecursiveFlag ==
  route = "index"
    => /\ cmd.recursive <=> EndsWithFlag(Normalize(query))
       /\ ~EndsWithFlag(cmd.path.v)

(***************************************************************************)
(* Properties of the functions called on their own                         *)
(***************************************************************************)
\* the places of the words "und" and "dann" standing alone after a blank
ConjAt(t) ==
  {i \in 2..Len(t) : /\ t[i - 1] = SP
                     /\ Lower(t[i]) \in {"und", "dann"}
                     /\ (i = Len(t) \/ t[i + 1] = SP)}

\* the text before its first standalone conjunction
UpToConj(t) == IF ConjAt(t) = {} THEN t ELSE Strip(SubSeq(t, 1, MinOf(ConjAt(t)) - 1))

\* the part of a written path that is the path: a home path runs over its
\* words, an absolute path ends at the first blank
PathPart(p) ==
  IF Head(p) = "~" THEN UpToConj(p) ELSE SubSeq(p, 1, RunOut(p, 1, {SP}))

\* paths written without a typo and without a doubled slash
PlainPaths == {p \in HomePaths \cup AbsolutePaths : TypoFix(p) = p /\ CollapseSlashes(p) = p}

\* C11: path extraction and index parsing return the written path up to its
\* first standalone "und" or "dann" and cut nowhere else: a word that only
\* begins with "und" stays in a home path.
C11_CutAtStandaloneConjunction ==
  \A p \in PlainPaths :
    /\ (called = "extract_path_from_text" /\ query = p)
         => returned.path = Some(PathPart(p))
    /\ (called = "parse_index_command" /\ query = Join(<<(<<"indexiere">>), p>>))
         => (returned.cmd.kind = "cmd" /\ returned.cmd.path = Some(PathPart(p)))

\* C12: a dotted relative path or a bare slashed path written in the text
\* is returned by extract_path_from_text as it was written.
C12_RelativePathUnchanged ==
  \A h \in PathHeads, p \in DottedPaths \cup BarePaths :
    (called = "extract_path_from_text" /\ query = Join(<<h, p>>))
      => returned.path = Some(p)

PathActions ==
  {"list", "navigate", "tree", "create_dir", "create_file", "delete", "find_similar"}

\* C13: the path fields of a filesystem command are what
\* extract_path_from_text makes of the captured text, typos corrected and
\* repeated slashes collapsed.
C13_PathFieldsNormalised ==
  (called = "parse_filesystem_command" /\ returned.cmd.kind = "cmd")
    => /\ \A h \in PathHeads, p \in TypoPaths :
            (query = Join(<<h, p>>) /\ returned.cmd.action \in PathActions)
              => returned.cmd.path = extract_path_from_text(p)
       /\ \A h \in TwoPathHeads, p \in TypoPaths, q \in TypoPaths :
            query = Join(<<h, p, <<"nach">>, q>>)
              => /\ returned.cmd.action \in {"move", "copy"}
                 /\ returned.cmd.source = extract_path_from_text(p)
                 /\ returned.cmd.dest = extract_path_from_text(q)

\* C14: a meta phrase followed by further content words, with no path, is
\* not a meta question.
C14_MetaIsWholeUtterance ==
  \A m \in MetaPhrases, tl \in ContentTails :
    (called = "is_meta_question" /\ query = Join(<<m, tl>>)) => ~returned.flag

\* C15: is_meta_question returns False for every text in which
\* extract_path_from_text finds a path.
C15_PathIsNeverMeta ==
  (called = "is_meta_question" /\ Truthy(extract_path_from_text(query)))
    => ~returned.flag

\* C15 witness: is_meta_question has returned False for a meta phrase that
\* goes on with a path.
C15_Witness ==
  /\ called = "is_meta_question"
  /\ \E m \in MetaPhrases, tl \in PathTails : query = Join(<<m, tl>>)
  /\ Truthy(extract_path_from_text(query))
  /\ ~returned.flag

\* the salutations, thanks and farewells
Salutations ==
  { <<"hallo">>, <<"hi">>, <<"hey">>, <<"moin">>, <<"servus">>, Ph(<<"grüß", "gott">>),
    Ph(<<"guten", "morgen">>), Ph(<<"guten", "tag">>), Ph(<<"guten", "abend">>),
    Ph(<<"wie", "geht's">>), Ph(<<"wie", "gehts">>), Ph(<<"wie", "geht", "es", "dir">>),
    Ph(<<"alles", "klar">>), Ph(<<"was", "geht">>),
    <<"tschüss">>, <<"bye">>, <<"ciao">>, Ph(<<"auf", "wiedersehen">>) }
    \cup { Join(<<th, more>>) :
             th \in {<<"danke">>, Ph(<<"vielen", "dank">>), <<"thx">>, <<"thanks">>},
             more \in {<<>>, <<"dir">>, <<"danke">>, <<"schön">>,
                       Ph(<<"für", "hilfe">>), Ph(<<"für", "die", "hilfe">>)} }

RECURSIVE WithoutTrail(_)
\* the text without the blanks and marks at its end
WithoutTrail(t) ==
  IF t # <<>> /\ t[Len(t)] \in {SP, "!", "?", "."}
  THEN WithoutTrail(SubSeq(t, 1, Len(t) - 1))
  ELSE t

\* C16: is_greeting is true only for a text that, in lower case and without
\* surrounding blanks and trailing punctuation, is one of the salutations.
C16_GreetingIsWholeUtterance ==
  (called = "is_greeting" /\ returned.flag)
    => WithoutTrail(Strip(LowerText(query))) \in Salutations

\* C16 witness: is_greeting has returned False for a salutation that goes on
\* with other words.
C16_Witness ==
  /\ called = "is_greeting"
  /\ \E g \in {<<"hallo">>, <<"hi">>}, w \in MoreWords : query = Glue(g, w)
  /\ ~returned.flag

\* C22: a tidy line ("räume ..." / "räum ...") from which no path is
\* extracted, with words of politeness or confirmation at any place, gives
\* the command with tidy = true and the Desktop of the user as source;
\* "räume bitte auf jetzt" gives it with dry_run false
C22_TidyDefaultsToDesktop ==
  (/\ called = "parse_filesystem_command"
   /\ query # <<>> /\ Head(query) \in {"räume", "räum"}
   /\ ~Truthy(extract_path_from_text(query)))
    => /\ returned.cmd.kind = "cmd"
       /\ returned.cmd.action = "organize"
       /\ returned.cmd.tidy
       /\ returned.cmd.source = Some(HomeDesktop)
       /\ query = Ph(<<"räume", "bitte", "auf", "jetzt">>) => ~DryRun(returned.cmd)

\* C23: the filesystem parser takes the bare-name and shell forms of the
\* test table: a delete verb with a bare file name is the filesystem
\* command delete, and "mv SRC DST" and "cp SRC DST", without nach/zu/in,
\* are move and copy with source SRC and destination DST
C23_BareAndShellForms ==
  called = "parse_filesystem_command"
    => /\ \A n \in BareNames :
            query = Join(<<<<"lösche">>, n>>)
              => /\ returned.cmd.kind = "cmd"
                 /\ returned.cmd.action = "delete"
                 /\ returned.cmd.path = Some(n)
       /\ \A n \in BareNames, m \in BareNames :
            /\ query = Join(<<<<"mv">>, n, m>>)
                 => /\ returned.cmd.kind = "cmd"
                    /\ returned.cmd.action = "move"
                    /\ returned.cmd.source = Some(n)
                    /\ returned.cmd.dest = Some(m)
            /\ query = Join(<<<<"cp">>, n, m>>)
                 => /\ returned.cmd.kind = "cmd"
                    /\ returned.cmd.action = "copy"
                    /\ returned.cmd.source = Some(n)
                    /\ returned.cmd.dest = Some(m)

\* C24: the normaliser and extract_path_from_text are idempotent:
\* normalising a normalised line (blanks collapsed, marks at the end and
\* the trailing confirmation word removed) changes nothing, and
\* extract_path_from_text of a path it has returned is that path
C24_Idempotent ==
  /\ called = "parse_query"
       => /\ Normalize(returned.text) = returned.text
          /\ ParseQuery(returned.text) = returned.text
  /\ (called = "extract_path_from_text" /\ returned.path.some)
       => extract_path_from_text(returned.path.v) = returned.path

(***************************************************************************)
(* Properties of the executor                                              *)
(***************************************************************************)
\* C5: an organize command run as a preview, in any of the three modes,
\* leaves the files and the directories as they were.
C5_PreviewChangesNothing ==
  [][(step = "execute" /\ cmd.action = "organize" /\ dry_run)
       => (fs' = fs /\ dirs' = dirs)]_vars

\* C5 witness: a preview of an organize command has run on a directory with
\* files and has planned moves.
C5_Witness ==
  /\ step = "read"
  /\ cmd.action = "organize"
  /\ dry_run
  /\ ~failed
  /\ planned # <<>>

\* C6: a move, delete or organize command of a line without a confirmation
\* token leaves the files and the directories as they were.
C6_NoChangeWithoutToken ==
  [][(/\ step = "execute"
      /\ cmd.action \in {"move", "delete", "organize"}
      /\ ~HasConfirmation(Normalize(query)))
       => (fs' = fs /\ dirs' = dirs)]_vars

\* the file of one planned move has left its place
Moved(m) == m.from \in DOMAIN fs /\ m.from \notin DOMAIN fs'

\* the names a file is stored under: its own, then <stem>_1<ext>, ...
Candidate(name, n) == IF n = 0 THEN name ELSE Numbered(name, n)

\* the moved file lies under the first candidate name that was free
StoredUnderFreeName(m) ==
  /\ m.to \notin DOMAIN fs
  /\ m.to \in DOMAIN fs' /\ fs'[m.to] = fs[m.from]
  /\ \E n \in 0..Cardinality(DOMAIN fs) :
       /\ Last(m.to) = Candidate(Last(m.from), n)
       /\ \A i \in 0..(n - 1) :
            Append(Parent(m.to), Candidate(Last(m.from), i)) \in DOMAIN fs' \cup dirs'

\* C7: an executed organize command, in any of the three modes, stores each
\* file it moves under the first free name of <stem><ext>, <stem>_1<ext>,
\* ..., and every file it does not move keeps its place and its content.
C7_CollisionsAreNumbered ==
  [][(step = "execute" /\ cmd.action = "organize" /\ ~dry_run)
       => /\ \A p \in DOMAIN fs :
               (\A k \in DOMAIN planned' : planned'[k].from # p)
                 => (p \in DOMAIN fs' /\ fs'[p] = fs[p])
          /\ \A k \in DOMAIN planned' :
               Moved(planned'[k]) => StoredUnderFreeName(planned'[k])]_vars

(***************************************************************************)
(* Properties of the chat session                                          *)
(***************************************************************************)
CommandRoutes == {"filesystem", "collection", "index"}

\* C17: a failure raised by an external capability while a filesystem,
\* collection or index command executes becomes an error status: the
\* exception does not leave the executor, and the loop reads the next line
\* with the current directory, the active collection and the history as
\* they were before the command
C17_FailuresBecomeStatus ==
  [][(route \in CommandRoutes /\ ~fault /\ fault')
       => /\ failed'
          /\ ~escaped'
          /\ step' = "read"
          /\ CurrentDir' = CurrentDir
          /\ collection_name' = collection_name
          /\ chat_history' = chat_history]_vars

\* C18: the current directory of the session changes only through a
\* Navigate that succeeds: a Navigate to a missing path or to a file, every
\* other command and the control token clear leave it as it was
C18_OnlyNavigateMovesCurrentDir ==
  [][CurrentDir' # CurrentDir
       => (step = "execute" /\ cmd.action = "navigate" /\ ~failed')]_vars

\* a Navigate has moved the session to the documents, and a later Navigate
\* to a missing path or to a file has failed and left it there
C18_Witness ==
  /\ step = "read"
  /\ cmd.action = "navigate"
  /\ failed
  /\ CurrentDir = SourceDir
  /\ CurrentDir # ProcessCwd

\* a path the user wrote relative: it starts neither at the root nor at home
RelativeArg(o) == Truthy(o) /\ Head(o.v) \notin {"/", "~"}

\* the path a command is given, taken against the directory d when relative
Against(o, d) == IF RelativeArg(o) THEN ResolveAt(o.v, d) ELSE PathOf(o.v)

RelativeActions == {"list", "tree", "create_dir", "create_file", "move", "copy", "delete"}

GivenRelative(c) ==
  /\ c.action \in RelativeActions
  /\ IF c.action \in {"move", "copy"} THEN RelativeArg(c.source) /\ RelativeArg(c.dest)
     ELSE RelativeArg(c.path)

\* what the command does when its relative paths are taken against d
OperatesOn(c, S, d) ==
  CASE c.action = "list" -> list_directory(S, Against(ListPath(c), d))
    [] c.action = "tree" -> [S |-> S, view |-> get_directory_tree(S, Against(c.path, d))]
    [] c.action = "create_dir" ->
         [S |-> create_directory(S, Against(c.path, d)), view |-> None]
    [] c.action = "create_file" -> [S |-> create_file(S, Against(c.path, d)), view |-> None]
    [] c.action = "move" ->
         [S |-> move_file_or_directory(S, Against(c.source, d), Against(c.dest, d)),
          view |-> None]
    [] c.action = "copy" ->
         [S |-> copy_file_or_directory(S, Against(c.source, d), Against(c.dest, d)),
          view |-> None]
    [] c.action = "delete" ->
         [S |-> delete_file_or_directory(S, Against(c.path, d)), view |-> None]

\* C19: after a successful Navigate to D a command given a relative path P
\* (list, tree, create_dir, create_file, move, copy, delete) operates on
\* D/P, the path taken against the current directory of the session and
\* not against the directory the process was started in
C19_RelativeToCurrentDir ==
  [][(step = "execute" /\ _current_dir.some /\ GivenRelative(cmd) /\ ~fault')
       => Bind(OperatesOn(cmd, Now, CurrentDir), LAMBDA r :
            /\ fs' = r.S.fs
            /\ dirs' = r.S.dirs
            /\ failed' = ~r.S.ok
            /\ shown' = r.view)]_vars

(***************************************************************************)
(* Properties of quick tidy                                                *)
(***************************************************************************)
\* C20: quick tidy handles at most 250 files per run and reports the
\* overflow: with n eligible top-level files the number planned by a
\* preview, or moved by an execution, is min(n, 250), too_many is true
\* exactly when n > 250, and after an execution moved + skipped = n
C20_TidyCapAndReport ==
  [][(called = "" /\ called' = "_tidy_quick" /\ returned'.report.mode # "")
       => LET eligible == EligibleFiles(Now, SourceDir)
              n == Cardinality(eligible)
              handled == MinOf({n, max_files})
              report == returned'.report
          IN /\ report.files_considered = n
             /\ report.too_many = (n > max_files)
             /\ report.mode = "dry_run"
                  => /\ report.planned_moves = handled
                     /\ Len(planned') = handled
                     /\ eligible \subseteq DOMAIN fs'
             /\ report.mode = "executed"
                  => /\ report.moved = handled
                     /\ Cardinality(eligible \ DOMAIN fs') = handled
                     /\ report.moved + report.skipped = n]_vars

\* an execution on more than 250 files has moved 250 of them and reports
\* the others as skipped
C20_Witness ==
  /\ called = "_tidy_quick"
  /\ returned.report.mode = "executed"
  /\ returned.report.too_many
  /\ returned.report.moved = max_files
  /\ returned.report.skipped > 0
  /\ Cardinality(EligibleFiles(Now, SourceDir)) = returned.report.skipped

\* the regular files directly inside the source directory: no dotfile, no
\* symbolic link, nothing of a subdirectory
RegularTopFiles ==
  {p \in DOMAIN fs : Parent(p) = SourceDir /\ ~IsHidden(Last(p)) /\ p \notin links}

CategoryNames == {"Dokumente", "Bilder", "Archive", "Code", "AudioVideo", "Sonstiges"}

\* C21: quick tidy considers exactly the regular files directly inside the
\* source directory, excluding dotfiles, symbolic links and subdirectories,
\* and gives each of them exactly one category of the extension table, the
\* extension compared without regard to case and every unlisted extension
\* going to the catch-all category
C21_TidyConsidersRegularFiles ==
  [][(called = "" /\ called' = "_tidy_quick" /\ returned'.report.mode # "")
       => LET taken == {planned'[k].from : k \in DOMAIN planned'}
          IN /\ returned'.report.files_considered = Cardinality(RegularTopFiles)
             /\ taken \subseteq RegularTopFiles
             /\ ~returned'.report.too_many => taken = RegularTopFiles
             /\ \A k \in DOMAIN planned' :
                  LET name == Last(planned'[k].from)
                      folder == Last(Parent(planned'[k].to))
                  IN /\ planned'[k].to = TidyTarget \o <<folder, name>>
                     /\ folder.stem \in CategoryNames
                     /\ folder.stem = Category(LowerExt(name.ext))
                     /\ name.ext \in {".txt", ".TXT"} => folder.stem = "Dokumente"
                     /\ name.ext = ".xyz" => folder.stem = "Sonstiges"]_vars

(***************************************************************************)
(* The chat given collection commands only: create, list, delete, switch   *)
(* and info, on a vector store that holds any of the collections at the    *)
(* start.                                                                  *)
(***************************************************************************)
StoreLines ==
  { Ph(<<"erstelle", "wissensdatenbank", "notes">>),
    Ph(<<"neue", "datenbank", "neu">>),
    Ph(<<"zeige", "alle", "wissensdatenbanken">>),
    Ph(<<"lösche", "wissensdatenbank", "chunks">>),
    Ph(<<"lösche", "datenbank", "notes">>),
    Ph(<<"lösche", "neu">>),
    Ph(<<"lösche", "datenbank", "chunks", "jetzt">>),
    Ph(<<"wechsle", "zu", "notes">>),
    Ph(<<"wechsle", "zu", "neu">>),
    Ph(<<"wechsle", "zu", "chunks">>),
    Ph(<<"wechsle", "zu", "fehlt">>),
    Ph(<<"info", "über", "datenbank", "notes">>) }

\* chat: the next line of the user is a collection command
StoreReadLine ==
  /\ step = "read"
  /\ query' \in StoreLines
  /\ step' = "filesystem"
  /\ route' = ""
  /\ cmd' = NoCmd
  /\ dry_run' = FALSE
  /\ planned' = <<>>
  /\ failed' = FALSE
  /\ shown' = None
  /\ fault' = FALSE
  /\ escaped' = FALSE
  /\ UNCHANGED <<prior, fs, dirs, links, callVars, _current_dir, collection_name, collections,
                 chat_history>>

InitStore ==
  /\ query = <<>>
  /\ step = "read"
  /\ route = ""
  /\ cmd = NoCmd
  /\ dry_run = FALSE
  /\ prior = NoCmd
  /\ fs = ChatFiles
  /\ links = {}
  /\ dirs = UNION {Prefixes(Parent(p)) : p \in DOMAIN ChatFiles} \cup Prefixes(PathOf(HomeDir))
  /\ planned = <<>>
  /\ failed = FALSE
  /\ called = ""
  /\ returned = NoReturn
  /\ _current_dir = None
  /\ collection_name = DefaultCollection
  /\ collections \in SUBSET Collections
  /\ chat_history = <<>>
  /\ shown = None
  /\ fault = FALSE
  /\ escaped = FALSE

NextStore ==
  \/ StoreReadLine
  \/ RouteFilesystem
  \/ RouteCollection
  \/ ExecCollection

SpecStore == InitStore /\ [][NextStore]_vars

\* a collection command has just been executed
CollectionExecuted == step = "answered" /\ route = "collection" /\ step' = "read"

\* C25: through any sequence of collection commands of the chat the active
\* collection is never deleted: a delete that names the active collection
\* fails and changes nothing, and a switch to a collection that does not
\* exist fails and leaves the active collection as it was
C25_ActiveCollectionNeverDeleted ==
  [][ /\ collection_name \notin (collections \ collections')
      /\ (collection_name \in collections => collection_name' \in collections')
      /\ (CollectionExecuted /\ cmd.action = "delete" /\ cmd.name = Some(collection_name))
           => failed' /\ UNCHANGED <<collection_name, collections>>
      /\ (CollectionExecuted /\ cmd.action = "switch" /\ cmd.name.v \notin collections)
           => failed' /\ UNCHANGED <<collection_name, collections>> ]_vars

\* the active collection, switched to before, has been named by a delete
\* that the store did not refuse to serve, and is still there
C25_Witness ==
  /\ step = "read"
  /\ route = "collection"
  /\ cmd.action = "delete"
  /\ cmd.name = Some(collection_name)
  /\ collection_name # DefaultCollection
  /\ collection_name \in collections
  /\ failed
  /\ ~fault

\* C26: in every state reachable through chat commands the current
\* directory of the session names a directory that exists: no sequence of
\* navigate, delete, move and organize commands leaves it pointing at a
\* directory that has been removed or moved away
C26_CurrentDirExists == IsDir(Now, CurrentDir)

\* the messages are user and assistant in turns, beginning with the user
CompletePairs(h) ==
  /\ Len(h) % 2 = 0
  /\ \A i \in DOMAIN h : h[i].role = (IF i % 2 = 1 THEN "user" ELSE "assistant")

ModePhrases == { Ph(<<"nach", "themen">>), Ph(<<"mit", "wissen">>) }

\* the line is the organize verb, the path and a mode phrase, and whatever
\* confirmation and marks follow
OrganizeOf(line, written, phrase) == StartsWith(line, Join(<<<<"organisiere">>, written, phrase>>))

\* C28: for an organize utterance in theme or knowledge phrasing the source
\* of the command is exactly the path written in the utterance, without the
\* trailing mode phrase, for every shape of path
C28_SourceIsWrittenPath ==
  \A written \in Args \ {<<>>}, phrase \in ModePhrases :
    (route = "filesystem" /\ cmd.action = "organize" /\ ~cmd.tidy
       /\ OrganizeOf(query, written, phrase))
      => cmd.source = Some(written)

\* execute_filesystem_command, organize: the suffix of the directory made
\* when the command has no dest
OrganizeSuffix(c) == IF UseKnowledge(c) THEN "_organisiert_wissen" ELSE "_organisiert"

\* C29: when an organize utterance names no destination directory, only a
\* mode phrase following the source, the dest of the command is None and
\* the executor places the result in the sibling directory of the source
\* named <source>_organisiert, or <source>_organisiert_wissen in knowledge
\* mode
C29_NoDestMeansSibling ==
  \A written \in Args \ {<<>>}, phrase \in ModePhrases :
    (route = "filesystem" /\ cmd.action = "organize"
       /\ query = Join(<<<<"organisiere">>, written, phrase>>))
      => /\ cmd.dest = None
         /\ Target(cmd, OrganizeSuffix(cmd)) = Sibling(PathOf(cmd.source.v), OrganizeSuffix(cmd))

\* execute_filesystem_command, organize: the branch that executes the command
OrganizeMode(c) ==
  IF c.tidy /\ ~UseKnowledge(c) THEN "tidy"
  ELSE IF UseKnowledge(c) THEN "knowledge"
  ELSE "themes"

\* names a directory of the user may have
SegmentNames == {"docs", "jetzt", "wissen"}

\* the line with the last segment of its path named otherwise
Renamed(line, name) ==
  [i \in DOMAIN line |->
     IF i > 1 /\ line[i - 1] = "/" /\ line[i] = "test" THEN name ELSE line[i]]

\* C30: the mode in which an organize command is executed (quick tidy, by
\* themes, with knowledge) and its dry_run depend only on the command words
\* of the utterance, not on the names inside the source path: two organize
\* utterances that differ only in the names of path segments are executed
\* in the same mode and with the same dry_run
C30_ModeIndependentOfNames ==
  (route = "filesystem" /\ cmd.action = "organize")
    => \A name \in SegmentNames :
         Bind(parse_filesystem_command(Renamed(query, name)), LAMBDA other :
           other.action = "organize"
             => /\ OrganizeMode(other) = OrganizeMode(cmd)
                /\ DryRun(other) = dry_run)

====
